---- MODULE Spec2Model ----
(***************************************************************************)
(* Model of the BlueZ pairing agent of piston-audio-ui                     *)
(* (src/src/bluetooth_agent.py, class BluetoothAgent).                     *)
(*                                                                         *)
(* The agent runs on one asyncio event loop.  Every agent callback is a    *)
(* coroutine; the code between two awaits is one atomic step.  A request   *)
(* is a PairingRequest object; objects are numbered 1..MaxReq in order of  *)
(* creation and 0 stands for "no object".                                  *)
(*                                                                         *)
(* Each callback first awaits _get_device_info, which touches no agent     *)
(* state; a callback action below is the atomic stretch that follows it:   *)
(* creating the request, storing it in _pending_requests, calling the      *)
(* on_pairing_request sink (the UI's sink only opens a dialog) and, for a  *)
(* suspending callback, creating the future and entering wait_for.         *)
(*                                                                         *)
(* The second part models the device state coordinator: the connect,       *)
(* disconnect and remove handlers and _refresh_devices of PistonAudioUI    *)
(* (src/src/ui.py) over BluetoothManager, with the stack's device objects. *)
(* Handlers are numbered 1..MaxOps in the order they are started.  The     *)
(* pairing dialog's accept and reject handlers join the two parts.         *)
(*                                                                         *)
(* The third part models the application: PistonAudio.setup                *)
(* (src/src/main.py), the backend detection, sink filter and display name  *)
(* of src/src/audio_manager.py, and the error classifier of ui.py applied  *)
(* to a raw message.  It also holds the adapter's Discoverable and         *)
(* Pairable properties and the agent's registration as setup leaves them,  *)
(* and the results of get_connected_device and set_volume.                 *)
(***************************************************************************)
EXTENDS Integers, Sequences, FiniteSets, TLC

\* ------------------------------------------------------------------ bounds
MaxReq == 2                      \* PairingRequest objects created in a run
MaxErrLen == 3                   \* pieces in a generated error text
MaxSinks == 2                    \* sinks the audio tools report at a time
VolumeMargin == 2                \* how far below 0 and above 150 a requested volume may lie
MaxOps == 2                      \* coordinator handlers started in a run
Paths == {"/d1", "/d2"}          \* device object paths the stack may name
Passkeys == {7, 123456}          \* numeric passkeys the stack may send
PinCodes == {<<0, 0, 0, 0>>}     \* pin codes the stack may send (digit strings)

ReqIds == 1..MaxReq
NoReq == 0

\* -------------------------------------------------- PairingStatus (enum)
PENDING == "pending"
ACCEPTED == "accepted"
REJECTED == "rejected"
TIMEOUT == "timeout"
PairingStatus == {PENDING, ACCEPTED, REJECTED, TIMEOUT}
Terminal == {ACCEPTED, REJECTED, TIMEOUT}

\* ------------------------------------------------- service identifiers
\* uuid strings are modelled by name; Lower is str.lower() on them.
UuidA2dpSourceLower == "0000110a-0000-1000-8000-00805f9b34fb"
UuidA2dpSourceUpper == "0000110A-0000-1000-8000-00805F9B34FB"
UuidAvrcpTargetLower == "0000110e-0000-1000-8000-00805f9b34fb"
UuidSerialPort == "00001101-0000-1000-8000-00805f9b34fb"
Uuids == {UuidA2dpSourceLower, UuidA2dpSourceUpper, UuidAvrcpTargetLower, UuidSerialPort}

Lower(u) == IF u = UuidA2dpSourceUpper THEN UuidA2dpSourceLower ELSE u

a2dp_uuids ==
    { "0000110a-0000-1000-8000-00805f9b34fb",
      "0000110b-0000-1000-8000-00805f9b34fb",
      "0000110e-0000-1000-8000-00805f9b34fb",
      "0000110c-0000-1000-8000-00805f9b34fb" }

\* ------------------------------------------------------ passkey format
RECURSIVE Digits(_)
Digits(n) == IF n < 10 THEN <<n>> ELSE Append(Digits(n \div 10), n % 10)

RECURSIVE ZeroPad(_, _)
ZeroPad(s, w) == IF Len(s) >= w THEN s ELSE ZeroPad(<<0>> \o s, w)

\* faulty variant: f"{passkey}", the digits without padding
Format06d_Unpadded(n) == Digits(n)

\* f"{passkey:06d}"
Format06d(n) == ZeroPad(Digits(n), 6)

NoPasskey == <<>>

\* ------------------------------------------------------------- state
VARIABLES
    requests,          \* the PairingRequest objects: device_path, passkey, status, future
    pending_requests,  \* BluetoothAgent._pending_requests: path -> object (0: no key)
    nreq,              \* number of PairingRequest objects created so far
    tasks,             \* the agent callback coroutine that created each object
    notified,          \* how often on_pairing_request was called with each object
    wait_for_impl,     \* which asyncio.wait_for the interpreter provides
    lastCall           \* the last call into the agent that returned at once
                       \* without creating a request, and what it returned

agentVars == <<requests, pending_requests, nreq, tasks, notified, wait_for_impl, lastCall>>

\* The device state coordinator (PistonAudioUI over BluetoothManager) and
\* the part of the Bluetooth stack it talks to.
VARIABLES
    _device_states,    \* PistonAudioUI._device_states: path -> overlay state (NoState: no key)
    _bus,              \* BluetoothManager._bus is set (TRUE) or None (FALSE)
    stack,             \* the stack's device objects with their properties, in
                       \* the order GetManagedObjects enumerates them
    ops,               \* the connect / disconnect / remove handler coroutines started so far
    nops,              \* number of handlers started so far
    devices,           \* the list the last completed _refresh_devices rendered
    notification       \* the last ui.notify

coordVars == <<_device_states, _bus, stack, ops, nops, devices, notification>>

\* The application object (PistonAudio, src/src/main.py), the audio manager
\* (src/src/audio_manager.py) with the audio output selector of the page,
\* and the error classifier applied to a raw message.
VARIABLES
    setup_pc,          \* where PistonAudio.setup stands
    ui_objects,        \* PistonAudioUI objects created; self.ui is None while 0
    routes,            \* setup_routes has registered the page
    _adapter_path,     \* BluetoothManager._adapter_path is set (TRUE) or None
    _agent,            \* BluetoothManager._agent is set (TRUE) or None
    tools,             \* the executables shutil.which finds
    _backend,          \* AudioManager._backend
    tool_sinks,        \* the sinks the backend's tools report at the moment
    bt_sinks,          \* what the last get_bluetooth_sinks returned
    options,           \* AudioOutputSelector: the select's options after refresh
    raw_error,         \* the text of an exception handed to _parse_dbus_error
    message            \* what _parse_dbus_error returned for it

\* The adapter and the agent manager as the Bluetooth stack holds them.
VARIABLES
    Discoverable,      \* the adapter's Discoverable property
    Pairable,          \* the adapter's Pairable property
    agent_registered   \* RegisterAgent has succeeded for the agent's path

adapterVars == <<Discoverable, Pairable, agent_registered>>

\* What the last call of a query or command of the managers did.
VARIABLES
    connected_device,  \* get_connected_device: <<>> before a call, then one record
    set_volume_call    \* set_volume: <<>> before a call, then one record

queryVars == <<connected_device, set_volume_call>>

appVars == <<setup_pc, ui_objects, routes, _adapter_path, _agent,
             tools, _backend, tool_sinks, bt_sinks, options, raw_error, message,
             adapterVars, queryVars>>

vars == <<requests, pending_requests, nreq, tasks, notified, wait_for_impl, lastCall,
          _device_states, _bus, stack, ops, nops, devices, notification,
          setup_pc, ui_objects, routes, _adapter_path, _agent,
          tools, _backend, tool_sinks, bt_sinks, options, raw_error, message,
          Discoverable, Pairable, agent_registered, connected_device, set_volume_call>>

\* future: "none" (None), "pending", "result" (set_result called), "cancelled"
NewRequest(device, passkey) ==
    [device_path |-> device, passkey |-> passkey, status |-> PENDING, future |-> "none"]

NullRequest == [device_path |-> "", passkey |-> NoPasskey, status |-> PENDING, future |-> "none"]

\* pc: "unborn", "returned" (callback returned without waiting), "waiting"
\* (suspended in wait_for), "cancelling" (suspended in wait_for's
\* _cancel_and_wait), "done" (callback returned or raised to the stack).
\* arg: the uuid an AuthorizeService callback was called with ("" otherwise).
NullTask ==
    [kind |-> "", arg |-> "", pc |-> "unborn", timerFired |-> FALSE, result |-> "none"]

\* A call that returns at once: Cancel, accept_pairing, reject_pairing, and
\* the callbacks that neither create a request nor wait (Release,
\* RequestPinCode, RequestPasskey, AuthorizeService of an allow-listed uuid).
CallArg(op, path, arg, ret) == [op |-> op, path |-> path, arg |-> arg, ret |-> ret]

Call(op, path, ret) == CallArg(op, path, "", ret)

\* ------------------------------------------- coordinator data
\* DeviceState: the members ui.py uses.  The enum itself is imported from
\* bluetooth_agent; its members stand for themselves here and ERROR is the
\* member that equals the string "error" (ui.py line 474 compares with it).
DISCONNECTED == "disconnected"
CONNECTING == "connecting"
CONNECTED == "connected"
DISCONNECTING == "disconnecting"
PAIRING == "pairing"
ERROR == "error"
DeviceState == {DISCONNECTED, CONNECTING, CONNECTED, DISCONNECTING, PAIRING, ERROR}

\* no key in _device_states / no state attribute set by the merge
NoState == "none"

\* BluetoothDevice as get_devices builds it (address, name, icon left out)
BluetoothDevice(path, paired, trusted, connected) ==
    [path |-> path, paired |-> paired, trusted |-> trusted, connected |-> connected]

OpIds == 1..MaxOps

\* ok, error: the reply to the handler's stack call, once it has one
NullOp == [kind |-> "", path |-> "", pc |-> "unborn", ok |-> FALSE, error |-> <<>>]

NoNotification == [type |-> "", text |-> <<>>]

\* ui.notify(text, type=type)
Notify(text, type) == [type |-> type, text |-> text]

\* The texts of the exceptions the stack calls raise, as sequences of
\* pieces: a piece is one of the substrings _parse_dbus_error looks for, a
\* ":", a " ", or other text containing none of these.
ErrHostDown == <<"org.bluez.Error.Failed", ":", " ", "Host is down">>
ErrUnknown == <<"org.bluez.Error.Failed", ":", " ", "br-connection-unknown", " ">>
ErrDoesNotExist == <<"org.bluez.Error.DoesNotExist", ":", " ", "Does Not Exist">>
StackErrors == {ErrHostDown, ErrUnknown}

\* the substrings _parse_dbus_error looks for, in the order it looks
KnownPatterns ==
    <<"Host is down", "Connection refused", "le-connection-abort", "InProgress", "NotReady",
      "AuthenticationFailed", "AuthenticationCanceled", "AuthenticationRejected",
      "AuthenticationTimeout", "ConnectionAttemptFailed">>

ErrFooBarBaz == <<"foo", ":", " ", "bar", ":", " ", "baz">>
ErrAuthRejected ==
    <<"org.bluez.Error.", "AuthenticationRejected", ":", " ", "Authentication Rejected">>

\* the texts handed to _parse_dbus_error: every text of up to MaxErrLen
\* pieces, and the longer examples
ErrorPieces == {KnownPatterns[k] : k \in 1..Len(KnownPatterns)} \cup {":", " ", "foo", "baz"}
ErrorTexts ==
    UNION { [1..n -> ErrorPieces] : n \in 0..MaxErrLen }
        \cup {ErrFooBarBaz, ErrAuthRejected, ErrHostDown, ErrUnknown, ErrDoesNotExist}

\* the device objects the stack knows when the program starts
InitialStacks ==
    { <<BluetoothDevice("/d1", TRUE, TRUE, FALSE), BluetoothDevice("/d2", TRUE, FALSE, TRUE)>>,
      <<BluetoothDevice("/d2", FALSE, FALSE, FALSE), BluetoothDevice("/d1", TRUE, TRUE, TRUE)>>,
      <<BluetoothDevice("/d1", TRUE, FALSE, FALSE)>> }

\* the coordinator before any handler has run: PistonAudioUI.__init__
CoordIdle ==
    /\ _device_states = [p \in Paths |-> NoState]
    /\ ops = [i \in OpIds |-> NullOp]
    /\ nops = 0
    /\ devices = <<>>
    /\ notification = NoNotification

\* ------------------------------------------------------- audio data
\* class AudioBackend
PIPEWIRE == "pipewire"
PULSEAUDIO == "pulseaudio"
ALSA == "alsa"
UNKNOWN == "unknown"
AudioBackend == {PIPEWIRE, PULSEAUDIO, ALSA, UNKNOWN}

\* the executables _detect_backend asks shutil.which for
Tools == {"pw-cli", "pactl", "amixer"}

\* Sink names and descriptions are sequences of pieces: a piece is
\* "bluetooth" or "bluez" in some letter case, or other text that contains
\* neither of them in any letter case.
AudioSink(name, description) == [name |-> name, description |-> description]

SinkUsb == AudioSink(<<"alsa_output.usb">>, <<"USB Audio Device">>)
SinkBluez == AudioSink(<<"bluez", "_output.AA_BB.1">>, <<>>)
SinkDongle == AudioSink(<<"alsa_output.", "Bluetooth", "-dongle">>, <<"Bluetooth", " dongle">>)
SinkCard == AudioSink(<<"hw:0">>, <<"bluez", " card">>)
Sinks == {SinkUsb, SinkBluez, SinkDongle, SinkCard}

\* the lists of distinct sinks the tools can report
SinkLists ==
    UNION { { l \in [1..n -> Sinks] : \A i, j \in 1..n : i # j => l[i] # l[j] } : n \in 0..MaxSinks }

\* the application once setup has registered the agent, before any audio
\* call and any classification; the specifications of the agent and of the
\* coordinator leave these variables alone
AppReady ==
    /\ setup_pc = "done" /\ ui_objects = 1 /\ routes = TRUE
    /\ _adapter_path = TRUE /\ _agent = TRUE
    /\ tools = {} /\ _backend = UNKNOWN
    /\ tool_sinks = <<>> /\ bt_sinks = <<>> /\ options = <<>>
    /\ raw_error = <<>> /\ message = <<>>
    /\ Discoverable = TRUE /\ Pairable = TRUE /\ agent_registered = TRUE
    /\ connected_device = <<>> /\ set_volume_call = <<>>

Init ==
    /\ CoordIdle
    /\ AppReady
    /\ _bus = TRUE
    /\ stack = <<>>
    /\ requests = [r \in ReqIds |-> NullRequest]
    /\ pending_requests = [p \in Paths |-> NoReq]
    /\ nreq = 0
    /\ tasks = [r \in ReqIds |-> NullTask]
    /\ notified = [r \in ReqIds |-> 0]
    /\ wait_for_impl \in {"waiter", "cancel"}
    /\ lastCall = Call("__init__", "", "none")

\* ------------------------------------------------------------ helpers
Registered(r) == pending_requests[requests[r].device_path] = r

\* "if request.future and not request.future.done(): request.future.set_result(None)"
SetResult(req) ==
    IF req.future = "pending" THEN [req EXCEPT !.future = "result"] ELSE req

\* accept_pairing / reject_pairing / Cancel body applied to one object
Resolve(req, status) == SetResult([req EXCEPT !.status = status])

\* faulty variant: finally: self._pending_requests.clear()
FinallyRemove_ClearAll(reg, path) == [p \in Paths |-> NoReq]

\* finally: if request.device_path in self._pending_requests: del ...
FinallyRemove(reg, path) == [reg EXCEPT ![path] = NoReq]

\* faulty variant: return request.future.result(), which is None
WaitReturn_FutureResult(req) == FALSE

\* return request.status == PairingStatus.ACCEPTED
WaitReturn(req) == req.status = ACCEPTED

\* faulty variant: the handler returns False without recording the timeout
OnTimeout_KeepStatus(req) == req

\* except asyncio.TimeoutError: request.status = PairingStatus.TIMEOUT
OnTimeout(req) == [req EXCEPT !.status = TIMEOUT]

\* faulty variant: the callback returns normally whatever the wait returned
Outcome_AlwaysSuccess(accepted) == "success"

\* the callback's tail: "if not accepted: raise DBusError(org.bluez.Error.Rejected)"
Outcome(accepted) == IF accepted THEN "success" ELSE "rejected"

\* ------------------------------------------------- agent callbacks
\* PairingRequest(...); self._pending_requests[device] = request;
\* self._on_pairing_request(request); and, for a suspending callback,
\* _wait_for_response up to its await: request.future = create_future().
RegisterArg(op, arg, device, passkey, suspend) ==
    /\ nreq < MaxReq
    /\ LET r == nreq + 1 IN
        /\ nreq' = r
        /\ requests' = [requests EXCEPT ![r] =
              [NewRequest(device, passkey) EXCEPT
                  !.future = IF suspend THEN "pending" ELSE "none"]]
        /\ pending_requests' = [pending_requests EXCEPT ![device] = r]
        /\ notified' = [notified EXCEPT ![r] = @ + 1]
        /\ tasks' = [tasks EXCEPT ![r] =
              [kind |-> op,
               arg |-> arg,
               pc |-> IF suspend THEN "waiting" ELSE "returned",
               timerFired |-> FALSE,
               result |-> IF suspend THEN "none" ELSE "success"]]
    /\ UNCHANGED <<wait_for_impl, lastCall>>
    /\ UNCHANGED <<coordVars, appVars>>

Register(op, device, passkey, suspend) == RegisterArg(op, "", device, passkey, suspend)

\* def Release(self): logger.info(...)
Release ==
    /\ lastCall' = Call("Release", "", "none")
    /\ UNCHANGED <<requests, pending_requests, nreq, tasks, notified, wait_for_impl>>
    /\ UNCHANGED <<coordVars, appVars>>

\* return "0000"
RequestPinCode(device) ==
    /\ lastCall' = Call("RequestPinCode", device, "0000")
    /\ UNCHANGED <<requests, pending_requests, nreq, tasks, notified, wait_for_impl>>
    /\ UNCHANGED <<coordVars, appVars>>

\* return 0
RequestPasskey(device) ==
    /\ lastCall' = Call("RequestPasskey", device, "0")
    /\ UNCHANGED <<requests, pending_requests, nreq, tasks, notified, wait_for_impl>>
    /\ UNCHANGED <<coordVars, appVars>>

DisplayPinCode(device, pincode) == Register("DisplayPinCode", device, pincode, FALSE)

\* faulty variant: the display callback also awaits _wait_for_response
DisplayPasskey_Waits(device, passkey) ==
    Register("DisplayPasskey", device, Format06d(passkey), TRUE)

DisplayPasskey(device, passkey) ==
    Register("DisplayPasskey", device, Format06d(passkey), FALSE)

RequestConfirmation(device, passkey) ==
    Register("RequestConfirmation", device, Format06d(passkey), TRUE)

RequestAuthorization(device) ==
    Register("RequestAuthorization", device, NoPasskey, TRUE)

\* faulty variant: "if uuid in a2dp_uuids", the identifier compared as given
AuthorizeService_CaseSensitive(device, uuid) ==
    IF uuid \in a2dp_uuids
    THEN /\ lastCall' = CallArg("AuthorizeService", "", uuid, "success")
         /\ UNCHANGED <<requests, pending_requests, nreq, tasks, notified, wait_for_impl>>
         /\ UNCHANGED <<coordVars, appVars>>
    ELSE RegisterArg("AuthorizeService", uuid, device, NoPasskey, TRUE)

AuthorizeService(device, uuid) ==
    IF Lower(uuid) \in a2dp_uuids
    THEN \* device is only logged on this branch
         /\ lastCall' = CallArg("AuthorizeService", "", uuid, "success")
         /\ UNCHANGED <<requests, pending_requests, nreq, tasks, notified, wait_for_impl>>
         /\ UNCHANGED <<coordVars, appVars>>
    ELSE RegisterArg("AuthorizeService", uuid, device, NoPasskey, TRUE)

\* ------------------------------------------- asyncio.wait_for, line 121
\* The timer of wait_for expires.  "cancel" (timeouts.timeout, Python 3.12
\* and later): the waiting task is cancelled, which cancels the future it
\* awaits if that is still pending, and otherwise flags the task.  "waiter"
\* (Python 3.11 and earlier): only the internal waiter is released, and
\* only if the future has not completed.
TimerFires_IfRegistered(r) ==
    \* faulty variant: the timer runs only while the request is registered
    /\ tasks[r].pc = "waiting"
    /\ pending_requests[requests[r].device_path] = r
    /\ ~tasks[r].timerFired
    /\ wait_for_impl = "waiter" => requests[r].future = "pending"
    /\ tasks' = [tasks EXCEPT ![r].timerFired = TRUE]
    /\ requests' = [requests EXCEPT ![r].future =
          IF wait_for_impl = "cancel" /\ @ = "pending" THEN "cancelled" ELSE @]
    /\ UNCHANGED <<pending_requests, nreq, notified, wait_for_impl, lastCall>>
    /\ UNCHANGED <<coordVars, appVars>>

TimerFires(r) ==
    /\ tasks[r].pc = "waiting"
    /\ ~tasks[r].timerFired
    /\ wait_for_impl = "waiter" => requests[r].future = "pending"
    /\ tasks' = [tasks EXCEPT ![r].timerFired = TRUE]
    /\ requests' = [requests EXCEPT ![r].future =
          IF wait_for_impl = "cancel" /\ @ = "pending" THEN "cancelled" ELSE @]
    /\ UNCHANGED <<pending_requests, nreq, notified, wait_for_impl, lastCall>>
    /\ UNCHANGED <<coordVars, appVars>>

\* the callback leaves _wait_for_response by its return statement
ReturnFromWait(r) ==
    /\ tasks' = [tasks EXCEPT ![r].pc = "done",
                              ![r].result = Outcome(WaitReturn(requests[r]))]
    /\ pending_requests' = FinallyRemove(pending_requests, requests[r].device_path)
    /\ UNCHANGED <<requests, nreq, notified, wait_for_impl, lastCall>>
    /\ UNCHANGED <<coordVars, appVars>>

\* the callback leaves _wait_for_response by the TimeoutError handler
TimeoutFromWait(r) ==
    /\ requests' = [requests EXCEPT ![r] = OnTimeout(@)]
    /\ tasks' = [tasks EXCEPT ![r].pc = "done", ![r].result = Outcome(FALSE)]
    /\ pending_requests' = FinallyRemove(pending_requests, requests[r].device_path)
    /\ UNCHANGED <<nreq, notified, wait_for_impl, lastCall>>
    /\ UNCHANGED <<coordVars, appVars>>

\* The event loop resumes the suspended callback.
Wake(r) ==
    /\ tasks[r].pc = "waiting"
    /\ requests[r].future # "pending" \/ tasks[r].timerFired
    /\ IF wait_for_impl = "cancel"
       THEN IF tasks[r].timerFired THEN TimeoutFromWait(r) ELSE ReturnFromWait(r)
       ELSE IF requests[r].future = "result"
            THEN ReturnFromWait(r)
            ELSE \* fut.cancel(); await _cancel_and_wait(fut)
                 /\ requests' = [requests EXCEPT ![r].future = "cancelled"]
                 /\ tasks' = [tasks EXCEPT ![r].pc = "cancelling"]
                 /\ UNCHANGED <<pending_requests, nreq, notified, wait_for_impl, lastCall>>
                 /\ UNCHANGED <<coordVars, appVars>>

\* "waiter" only: the callback resumes after _cancel_and_wait and wait_for
\* raises TimeoutError.
WakeCancelled(r) ==
    /\ tasks[r].pc = "cancelling"
    /\ TimeoutFromWait(r)

\* ------------------------------------------------------------- Cancel
Cancel_NoRelease ==
    \* faulty variant: statuses set and registry cleared, no future resolved
    /\ requests' = [r \in ReqIds |->
          IF r <= nreq /\ Registered(r) THEN [requests[r] EXCEPT !.status = REJECTED]
          ELSE requests[r]]
    /\ pending_requests' = [p \in Paths |-> NoReq]
    /\ lastCall' = Call("Cancel", "", "none")
    /\ UNCHANGED <<nreq, tasks, notified, wait_for_impl>>
    /\ UNCHANGED <<coordVars, appVars>>

Cancel ==
    /\ requests' = [r \in ReqIds |->
          IF r <= nreq /\ Registered(r) THEN Resolve(requests[r], REJECTED)
          ELSE requests[r]]
    /\ pending_requests' = [p \in Paths |-> NoReq]
    /\ lastCall' = Call("Cancel", "", "none")
    /\ UNCHANGED <<nreq, tasks, notified, wait_for_impl>>
    /\ UNCHANGED <<coordVars, appVars>>

\* --------------------------------------- accept_pairing / reject_pairing
DecideBody(op, device_path, status) ==
    IF pending_requests[device_path] # NoReq
    THEN /\ requests' = [requests EXCEPT ![pending_requests[device_path]] =
                Resolve(@, status)]
         /\ lastCall' = Call(op, device_path, "True")
         /\ UNCHANGED <<pending_requests, nreq, tasks, notified, wait_for_impl>>
    ELSE /\ lastCall' = Call(op, device_path, "False")
         /\ UNCHANGED <<requests, pending_requests, nreq, tasks, notified, wait_for_impl>>

\* the method called by a caller that touches nothing of the coordinator
Decide(op, device_path, status) ==
    /\ DecideBody(op, device_path, status)
    /\ UNCHANGED <<coordVars, appVars>>

accept_pairing(device_path) == Decide("accept_pairing", device_path, ACCEPTED)

reject_pairing(device_path) == Decide("reject_pairing", device_path, REJECTED)

\* ---------------------------------------------------------------- Next
Next ==
    \/ Release
    \/ \E d \in Paths : RequestPinCode(d)
    \/ \E d \in Paths : RequestPasskey(d)
    \/ \E d \in Paths, c \in PinCodes : DisplayPinCode(d, c)
    \/ \E d \in Paths, k \in Passkeys : DisplayPasskey(d, k)
    \/ \E d \in Paths, k \in Passkeys : RequestConfirmation(d, k)
    \/ \E d \in Paths : RequestAuthorization(d)
    \/ \E d \in Paths, u \in Uuids : AuthorizeService(d, u)
    \/ \E r \in ReqIds : TimerFires(r)
    \/ \E r \in ReqIds : Wake(r)
    \/ \E r \in ReqIds : WakeCancelled(r)
    \/ Cancel
    \/ \E d \in Paths : accept_pairing(d)
    \/ \E d \in Paths : reject_pairing(d)

Spec == Init /\ [][Next]_vars

\* The calls that create, resolve or release a pairing request, and the
\* steps of the waits on them.  Release, RequestPinCode and RequestPasskey
\* read and write none of that state.
LifecycleNext ==
    \/ \E d \in Paths, c \in PinCodes : DisplayPinCode(d, c)
    \/ \E d \in Paths, k \in Passkeys : DisplayPasskey(d, k)
    \/ \E d \in Paths, k \in Passkeys : RequestConfirmation(d, k)
    \/ \E d \in Paths : RequestAuthorization(d)
    \/ \E d \in Paths, u \in Uuids : AuthorizeService(d, u)
    \/ \E r \in ReqIds : TimerFires(r)
    \/ \E r \in ReqIds : Wake(r)
    \/ \E r \in ReqIds : WakeCancelled(r)
    \/ Cancel
    \/ \E d \in Paths : accept_pairing(d)
    \/ \E d \in Paths : reject_pairing(d)

\* The event loop runs every ready callback and every due timer.
FairSpec ==
    /\ Init /\ [][LifecycleNext]_vars
    /\ \A r \in ReqIds :
          /\ WF_vars(TimerFires(r))
          /\ WF_vars(Wake(r))
          /\ WF_vars(WakeCancelled(r))

TypeOK ==
    /\ nreq \in 0..MaxReq
    /\ \A p \in Paths : pending_requests[p] \in 0..nreq
    /\ \A r \in ReqIds : requests[r].status \in PairingStatus
    /\ \A r \in ReqIds : requests[r].future \in {"none", "pending", "result", "cancelled"}
    /\ \A r \in ReqIds : tasks[r].pc \in {"unborn", "returned", "waiting", "cancelling", "done"}

\* =================================================== the coordinator
\* ------------------------------------------------ _parse_dbus_error
\* "pat in error"
Contains(error, pat) == \E i \in 1..Len(error) : error[i] = pat

\* faulty variant: parts[-1] is returned as it is
Strip_Kept(s) == s

RECURSIVE Strip(_)
\* str.strip()
Strip(s) ==
    IF s = <<>> THEN s
    ELSE IF Head(s) = " " THEN Strip(Tail(s))
    ELSE IF s[Len(s)] = " " THEN Strip(SubSeq(s, 1, Len(s) - 1))
    ELSE s

\* faulty variant: error.split(":")[0]
LastPart_First(error) ==
    LET colons == {i \in 1..Len(error) : error[i] = ":"}
        first == CHOOSE i \in colons : \A j \in colons : i <= j
    IN  SubSeq(error, 1, first - 1)

\* error.split(":")[-1]
LastPart(error) ==
    LET colons == {i \in 1..Len(error) : error[i] = ":"}
        last == CHOOSE i \in colons : \A j \in colons : j <= i
    IN  SubSeq(error, last + 1, Len(error))

_parse_dbus_error(error) ==
    IF Contains(error, "Host is down") THEN <<"Device is not in range or powered off">>
    ELSE IF Contains(error, "Connection refused") THEN <<"Device refused the connection">>
    ELSE IF Contains(error, "le-connection-abort") THEN <<"Connection was aborted">>
    ELSE IF Contains(error, "InProgress") THEN <<"Operation already in progress">>
    ELSE IF Contains(error, "NotReady") THEN <<"Bluetooth adapter is not ready">>
    ELSE IF Contains(error, "AuthenticationFailed")
         THEN <<"Authentication failed - try removing and re-pairing">>
    ELSE IF Contains(error, "AuthenticationCanceled") THEN <<"Authentication was cancelled">>
    ELSE IF Contains(error, "AuthenticationRejected")
         THEN <<"Authentication was rejected by the device">>
    ELSE IF Contains(error, "AuthenticationTimeout") THEN <<"Authentication timed out">>
    ELSE IF Contains(error, "ConnectionAttemptFailed") THEN <<"Connection attempt failed">>
    ELSE IF Contains(error, ":") THEN Strip(LastPart(error))
    ELSE error

\* --------------------------------------------------- the stack's objects
InStack(p) == \E k \in 1..Len(stack) : stack[k].path = p

SetConnected(st, p, v) ==
    [k \in 1..Len(st) |-> IF st[k].path = p THEN [st[k] EXCEPT !.connected = v] ELSE st[k]]

\* props.call_set(DEVICE_INTERFACE, "Trusted", True) as the stack applies it
SetTrusted(st, p) ==
    [k \in 1..Len(st) |-> IF st[k].path = p THEN [st[k] EXCEPT !.trusted = TRUE] ELSE st[k]]

Without(st, p) == SelectSeq(st, LAMBDA d : d.path # p)

\* BluetoothManager.get_devices
get_devices == IF ~_bus THEN <<>> ELSE stack

\* faulty variant: the override also rewrites the connected flag from the state
ApplyOverrides_SetsConnected(devs, states) ==
    [k \in 1..Len(devs) |->
        [path |-> devs[k].path, paired |-> devs[k].paired, trusted |-> devs[k].trusted,
         connected |-> IF states[devs[k].path] # NoState
                       THEN states[devs[k].path] = CONNECTED
                       ELSE devs[k].connected,
         state |-> states[devs[k].path]]]

\* for device in devices: if device.path in self._device_states:
\*     device.state = self._device_states[device.path]
ApplyOverrides(devs, states) ==
    [k \in 1..Len(devs) |->
        [path |-> devs[k].path, paired |-> devs[k].paired, trusted |-> devs[k].trusted,
         connected |-> devs[k].connected,
         state |-> states[devs[k].path]]]

\* what _refresh_devices renders when it resumes with the overlay states
Rendered(states) == ApplyOverrides(get_devices, states)

\* ui.timer(5.0, self._refresh_devices), the refresh button, page load
_refresh_devices ==
    /\ devices' = Rendered(_device_states)
    /\ UNCHANGED <<_device_states, _bus, stack, ops, nops, notification>>
    /\ UNCHANGED <<agentVars, appVars>>

\* a handler's "await self._refresh_devices()" resumes and the handler
\* runs on to its next await or its end
Resume(i, pc) == ops' = [ops EXCEPT ![i].pc = pc]

Start(kind, p, pc) ==
    /\ nops < MaxOps
    /\ nops' = nops + 1
    /\ ops' = [ops EXCEPT ![nops + 1] = [NullOp EXCEPT !.kind = kind, !.path = p, !.pc = pc]]

\* ------------------------------------------------------ the stack
\* The stack carries out the call handler i has issued and replies.  A
\* call on a path that names no device object fails; a call on a device
\* succeeds or fails with one of the errors.
StackCall(i) ==
    /\ ops[i].pc = "call"
    /\ LET p == ops[i].path IN
        IF ~InStack(p)
        THEN /\ ops' = [ops EXCEPT ![i].pc = "replied", ![i].error = ErrDoesNotExist]
             /\ stack' = stack
        ELSE \/ /\ ops' = [ops EXCEPT ![i].pc = "replied", ![i].ok = TRUE]
                /\ stack' = CASE ops[i].kind = "connect" -> SetConnected(stack, p, TRUE)
                               [] ops[i].kind = "disconnect" -> SetConnected(stack, p, FALSE)
                               [] ops[i].kind = "trust" -> SetTrusted(stack, p)
                               [] OTHER -> Without(stack, p)
             \/ /\ \E e \in StackErrors :
                      ops' = [ops EXCEPT ![i].pc = "replied", ![i].error = e]
                /\ stack' = stack
    /\ UNCHANGED <<_device_states, _bus, nops, devices, notification>>
    /\ UNCHANGED <<agentVars, appVars>>

\* a device connects or drops its link by itself
StackPropertyChanged(p) ==
    /\ \E k \in 1..Len(stack) :
          /\ stack[k].path = p
          /\ stack' = SetConnected(stack, p, ~stack[k].connected)
    /\ UNCHANGED <<_device_states, _bus, ops, nops, devices, notification>>
    /\ UNCHANGED <<agentVars, appVars>>

\* a device object is removed by another client of the stack
StackDeviceRemoved(p) ==
    /\ InStack(p)
    /\ stack' = Without(stack, p)
    /\ UNCHANGED <<_device_states, _bus, ops, nops, devices, notification>>
    /\ UNCHANGED <<agentVars, appVars>>

\* -------------------------------------------------- _connect_device
\* lines 408-412: the state is set and the first refresh awaited.  With no
\* bus get_devices and connect_device return without suspending, so the
\* handler runs to its end in one step.
_connect_device(p) ==
    /\ IF _bus
       THEN /\ Start("connect", p, "refresh")
            /\ _device_states' = [_device_states EXCEPT ![p] = CONNECTING]
            /\ UNCHANGED <<devices, notification>>
       ELSE /\ Start("connect", p, "done")
            /\ _device_states' = [_device_states EXCEPT ![p] = CONNECTED]
            /\ devices' = Rendered(_device_states')
            /\ notification' = Notify(<<"Device connected">>, "positive")
    /\ UNCHANGED <<_bus, stack>>
    /\ UNCHANGED <<agentVars, appVars>>

\* line 412 resumes; line 415 issues the stack's Connect
_connect_device_call(i) ==
    /\ ops[i].kind = "connect" /\ ops[i].pc = "refresh"
    /\ devices' = Rendered(_device_states)
    /\ Resume(i, "call")
    /\ UNCHANGED <<_device_states, _bus, stack, nops, notification>>
    /\ UNCHANGED <<agentVars, appVars>>

\* faulty variant: a failed call leaves the state as it is
_connect_device_result_NoError(i) ==
    /\ ops[i].kind = "connect" /\ ops[i].pc = "replied"
    /\ IF ops[i].ok
       THEN /\ _device_states' = [_device_states EXCEPT ![ops[i].path] = CONNECTED]
            /\ notification' = Notify(<<"Device connected">>, "positive")
       ELSE /\ _device_states' = _device_states
            /\ notification' = Notify(<<"Connection failed: ">>
                                          \o _parse_dbus_error(ops[i].error), "negative")
    /\ Resume(i, "finally")
    /\ UNCHANGED <<_bus, stack, nops, devices>>
    /\ UNCHANGED <<agentVars, appVars>>

\* faulty variant: after a failed call the handler issues the call again
_connect_device_result_Retries(i) ==
    /\ ops[i].kind = "connect" /\ ops[i].pc = "replied"
    /\ IF ops[i].ok
       THEN /\ _device_states' = [_device_states EXCEPT ![ops[i].path] = CONNECTED]
            /\ notification' = Notify(<<"Device connected">>, "positive")
            /\ Resume(i, "finally")
       ELSE /\ _device_states' = _device_states
            /\ notification' = notification
            /\ ops' = [ops EXCEPT ![i].pc = "call", ![i].error = <<>>]
    /\ UNCHANGED <<_bus, stack, nops, devices>>
    /\ UNCHANGED <<agentVars, appVars>>

\* line 415 resumes: lines 416-417 or 422-425, then line 428 awaits
_connect_device_result(i) ==
    /\ ops[i].kind = "connect" /\ ops[i].pc = "replied"
    /\ IF ops[i].ok
       THEN /\ _device_states' = [_device_states EXCEPT ![ops[i].path] = CONNECTED]
            /\ notification' = Notify(<<"Device connected">>, "positive")
       ELSE /\ _device_states' = [_device_states EXCEPT ![ops[i].path] = ERROR]
            /\ notification' = Notify(<<"Connection failed: ">>
                                          \o _parse_dbus_error(ops[i].error), "negative")
    /\ Resume(i, "finally")
    /\ UNCHANGED <<_bus, stack, nops, devices>>
    /\ UNCHANGED <<agentVars, appVars>>

\* line 428 resumes; lines 430-431 enter _clear_error_state up to its sleep
_connect_device_finally(i) ==
    /\ ops[i].kind = "connect" /\ ops[i].pc = "finally"
    /\ devices' = Rendered(_device_states)
    /\ Resume(i, IF _device_states[ops[i].path] = ERROR THEN "sleep" ELSE "done")
    /\ UNCHANGED <<_device_states, _bus, stack, nops, notification>>
    /\ UNCHANGED <<agentVars, appVars>>

\* faulty variant: the delayed clear returns without looking at the state
_clear_error_state_Skips(i) ==
    /\ ops[i].pc = "sleep"
    /\ Resume(i, "done")
    /\ UNCHANGED <<_device_states, _bus, stack, nops, devices, notification>>
    /\ UNCHANGED <<agentVars, appVars>>

\* faulty variant: the delayed clear pops the entry whatever its state
_clear_error_state_Always(i) ==
    /\ ops[i].pc = "sleep"
    /\ _device_states' = [_device_states EXCEPT ![ops[i].path] = NoState]
    /\ Resume(i, "cleared")
    /\ UNCHANGED <<_bus, stack, nops, devices, notification>>
    /\ UNCHANGED <<agentVars, appVars>>

\* line 473 resumes after the delay; lines 474-476
_clear_error_state(i) ==
    /\ ops[i].pc = "sleep"
    /\ IF _device_states[ops[i].path] = "error"
       THEN /\ _device_states' = [_device_states EXCEPT ![ops[i].path] = NoState]
            /\ Resume(i, "cleared")
       ELSE /\ _device_states' = _device_states
            /\ Resume(i, "done")
    /\ UNCHANGED <<_bus, stack, nops, devices, notification>>
    /\ UNCHANGED <<agentVars, appVars>>

\* line 476 resumes
_clear_error_state_refreshed(i) ==
    /\ ops[i].pc = "cleared"
    /\ devices' = Rendered(_device_states)
    /\ Resume(i, "done")
    /\ UNCHANGED <<_device_states, _bus, stack, nops, notification>>
    /\ UNCHANGED <<agentVars, appVars>>

\* ----------------------------------------------- _disconnect_device
_disconnect_device(p) ==
    /\ IF _bus
       THEN /\ Start("disconnect", p, "refresh")
            /\ _device_states' = [_device_states EXCEPT ![p] = DISCONNECTING]
            /\ UNCHANGED <<devices, notification>>
       ELSE /\ Start("disconnect", p, "done")
            /\ _device_states' = [_device_states EXCEPT ![p] = DISCONNECTED]
            /\ devices' = Rendered(_device_states')
            /\ notification' = Notify(<<"Device disconnected">>, "info")
    /\ UNCHANGED <<_bus, stack>>
    /\ UNCHANGED <<agentVars, appVars>>

\* line 439 resumes; line 442 issues the stack's Disconnect
_disconnect_device_call(i) ==
    /\ ops[i].kind = "disconnect" /\ ops[i].pc = "refresh"
    /\ devices' = Rendered(_device_states)
    /\ Resume(i, "call")
    /\ UNCHANGED <<_device_states, _bus, stack, nops, notification>>
    /\ UNCHANGED <<agentVars, appVars>>

\* line 442 resumes: lines 443-444 or 447-449, then line 451 awaits
_disconnect_device_result(i) ==
    /\ ops[i].kind = "disconnect" /\ ops[i].pc = "replied"
    /\ IF ops[i].ok
       THEN /\ _device_states' = [_device_states EXCEPT ![ops[i].path] = DISCONNECTED]
            /\ notification' = Notify(<<"Device disconnected">>, "info")
       ELSE /\ _device_states' = _device_states
            /\ notification' = Notify(<<"Disconnect failed: ">>
                                          \o _parse_dbus_error(ops[i].error), "negative")
    /\ Resume(i, "finally")
    /\ UNCHANGED <<_bus, stack, nops, devices>>
    /\ UNCHANGED <<agentVars, appVars>>

\* line 451 resumes
_disconnect_device_finally(i) ==
    /\ ops[i].kind = "disconnect" /\ ops[i].pc = "finally"
    /\ devices' = Rendered(_device_states)
    /\ Resume(i, "done")
    /\ UNCHANGED <<_device_states, _bus, stack, nops, notification>>
    /\ UNCHANGED <<agentVars, appVars>>

\* --------------------------------------------------- _remove_device
\* line 457 issues the stack's RemoveDevice at once
_remove_device(p) ==
    /\ IF _bus
       THEN /\ Start("remove", p, "call")
            /\ UNCHANGED <<_device_states, devices, notification>>
       ELSE /\ Start("remove", p, "done")
            /\ _device_states' = [_device_states EXCEPT ![p] = NoState]
            /\ devices' = Rendered(_device_states')
            /\ notification' = Notify(<<"Device removed">>, "info")
    /\ UNCHANGED <<_bus, stack>>
    /\ UNCHANGED <<agentVars, appVars>>

\* line 457 resumes: lines 459-460 or 463-465, then line 468 awaits
_remove_device_result(i) ==
    /\ ops[i].kind = "remove" /\ ops[i].pc = "replied"
    /\ IF ops[i].ok
       THEN /\ _device_states' = [_device_states EXCEPT ![ops[i].path] = NoState]
            /\ notification' = Notify(<<"Device removed">>, "info")
       ELSE /\ _device_states' = _device_states
            /\ notification' = Notify(<<"Remove failed: ">>
                                          \o _parse_dbus_error(ops[i].error), "negative")
    /\ Resume(i, "finally")
    /\ UNCHANGED <<_bus, stack, nops, devices>>
    /\ UNCHANGED <<agentVars, appVars>>

\* line 468 resumes
_remove_device_finally(i) ==
    /\ ops[i].kind = "remove" /\ ops[i].pc = "finally"
    /\ devices' = Rendered(_device_states)
    /\ Resume(i, "done")
    /\ UNCHANGED <<_device_states, _bus, stack, nops, notification>>
    /\ UNCHANGED <<agentVars, appVars>>

\* ------------------------------------------------ the coordinator alone
\* The agent is left in its initial state; it shares no state with the
\* coordinator.
CoordInit ==
    /\ CoordIdle
    /\ AppReady
    /\ _bus \in BOOLEAN
    /\ stack \in InitialStacks
    /\ requests = [r \in ReqIds |-> NullRequest]
    /\ pending_requests = [p \in Paths |-> NoReq]
    /\ nreq = 0
    /\ tasks = [r \in ReqIds |-> NullTask]
    /\ notified = [r \in ReqIds |-> 0]
    /\ wait_for_impl = "cancel"
    /\ lastCall = Call("__init__", "", "none")

CoordNext ==
    \/ _refresh_devices
    \/ \E p \in Paths : _connect_device(p)
    \/ \E p \in Paths : _disconnect_device(p)
    \/ \E p \in Paths : _remove_device(p)
    \/ \E i \in OpIds : StackCall(i)
    \/ \E p \in Paths : StackPropertyChanged(p)
    \/ \E p \in Paths : StackDeviceRemoved(p)
    \/ \E i \in OpIds : _connect_device_call(i)
    \/ \E i \in OpIds : _connect_device_result(i)
    \/ \E i \in OpIds : _connect_device_finally(i)
    \/ \E i \in OpIds : _clear_error_state(i)
    \/ \E i \in OpIds : _clear_error_state_refreshed(i)
    \/ \E i \in OpIds : _disconnect_device_call(i)
    \/ \E i \in OpIds : _disconnect_device_result(i)
    \/ \E i \in OpIds : _disconnect_device_finally(i)
    \/ \E i \in OpIds : _remove_device_result(i)
    \/ \E i \in OpIds : _remove_device_finally(i)

CoordSpec == CoordInit /\ [][CoordNext]_vars

\* The handlers and the stack's replies to them.  The periodic refresh and
\* the stack's own changes write neither _device_states nor a handler.
HandlerNext ==
    \/ \E p \in Paths : _connect_device(p)
    \/ \E p \in Paths : _disconnect_device(p)
    \/ \E p \in Paths : _remove_device(p)
    \/ \E i \in OpIds : StackCall(i)
    \/ \E i \in OpIds : _connect_device_call(i)
    \/ \E i \in OpIds : _connect_device_result(i)
    \/ \E i \in OpIds : _connect_device_finally(i)
    \/ \E i \in OpIds : _clear_error_state(i)
    \/ \E i \in OpIds : _clear_error_state_refreshed(i)
    \/ \E i \in OpIds : _disconnect_device_call(i)
    \/ \E i \in OpIds : _disconnect_device_result(i)
    \/ \E i \in OpIds : _disconnect_device_finally(i)
    \/ \E i \in OpIds : _remove_device_result(i)
    \/ \E i \in OpIds : _remove_device_finally(i)

\* The event loop resumes every handler whose await has completed, the
\* stack answers every call, and the delay of the error clear elapses.
CoordFairSpec ==
    /\ CoordInit /\ [][HandlerNext]_vars
    /\ \A i \in OpIds :
          /\ WF_vars(StackCall(i))
          /\ WF_vars(_connect_device_call(i))
          /\ WF_vars(_connect_device_result(i))
          /\ WF_vars(_connect_device_finally(i))
          /\ WF_vars(_clear_error_state(i))
          /\ WF_vars(_clear_error_state_refreshed(i))

CoordTypeOK ==
    /\ nops \in 0..MaxOps
    /\ \A p \in Paths : _device_states[p] \in DeviceState \cup {NoState}
    /\ \A i \in OpIds : ops[i].pc \in {"unborn", "refresh", "call", "replied", "finally",
                                        "sleep", "cleared", "done"}
    /\ \A k \in 1..Len(devices) : devices[k].state \in DeviceState \cup {NoState}

\* ------------------------------------------- a sink that decides at once
\* The agent with an on_pairing_request sink that, instead of only showing
\* the request, may call accept_pairing or reject_pairing before it
\* returns.  At that moment the request is registered and its future is
\* still None: the decision sets the status, finds no future to resolve
\* and returns True; _wait_for_response then creates the future and waits.
SinkBehaviours == {"show", "accept", "reject"}

RegisterSink(op, device, passkey, sink) ==
    /\ nreq < MaxReq
    /\ LET r == nreq + 1 IN
        /\ nreq' = r
        /\ requests' = [requests EXCEPT ![r] =
              [NewRequest(device, passkey) EXCEPT
                  !.status = CASE sink = "accept" -> ACCEPTED
                               [] sink = "reject" -> REJECTED
                               [] OTHER -> PENDING,
                  !.future = "pending"]]
        /\ pending_requests' = [pending_requests EXCEPT ![device] = r]
        /\ notified' = [notified EXCEPT ![r] = @ + 1]
        /\ tasks' = [tasks EXCEPT ![r] =
              [kind |-> op, arg |-> "", pc |-> "waiting", timerFired |-> FALSE,
               result |-> "none"]]
    /\ lastCall' = CASE sink = "accept" -> Call("accept_pairing", device, "True")
                      [] sink = "reject" -> Call("reject_pairing", device, "True")
                      [] OTHER -> lastCall
    /\ UNCHANGED wait_for_impl
    /\ UNCHANGED <<coordVars, appVars>>

RequestConfirmation_Sink(device, passkey, sink) ==
    RegisterSink("RequestConfirmation", device, Format06d(passkey), sink)

RequestAuthorization_Sink(device, sink) ==
    RegisterSink("RequestAuthorization", device, NoPasskey, sink)

\* the callbacks with such a sink and the waits on their requests; no
\* decision is made later
SinkNext ==
    \/ \E d \in Paths, k \in Passkeys, b \in SinkBehaviours : RequestConfirmation_Sink(d, k, b)
    \/ \E d \in Paths, b \in SinkBehaviours : RequestAuthorization_Sink(d, b)
    \/ \E r \in ReqIds : TimerFires(r)
    \/ \E r \in ReqIds : Wake(r)
    \/ \E r \in ReqIds : WakeCancelled(r)

SinkSpec == Init /\ [][SinkNext]_vars

\* ================================================== the pairing dialog
\* on_pairing_request has stored a dialog for the path: the buttons that
\* call _accept_pairing and _reject_pairing exist from then on.
HasDialog(p) == \E r \in 1..nreq : requests[r].device_path = p

\* _accept_pairing, lines 382-388: accept_pairing is called, its return
\* value is not looked at, and trust_device runs up to its call to the
\* stack.
_accept_pairing(p) ==
    /\ HasDialog(p)
    /\ DecideBody("accept_pairing", p, ACCEPTED)
    /\ Start("trust", p, "call")
    /\ UNCHANGED <<_device_states, _bus, stack, devices, notification>>
    /\ UNCHANGED appVars

\* trust_device resumes: line 389, or the except clause of line 390, then
\* the finally clause awaits the refresh
_accept_pairing_result(i) ==
    /\ ops[i].kind = "trust" /\ ops[i].pc = "replied"
    /\ notification' = IF ops[i].ok
                       THEN Notify(<<"Device paired and trusted">>, "positive")
                       ELSE Notify(<<"Pairing failed: ">> \o ops[i].error, "negative")
    /\ Resume(i, "finally")
    /\ UNCHANGED <<_device_states, _bus, stack, nops, devices>>
    /\ UNCHANGED <<agentVars, appVars>>

\* line 395 resumes
_accept_pairing_finally(i) ==
    /\ ops[i].kind = "trust" /\ ops[i].pc = "finally"
    /\ devices' = Rendered(_device_states)
    /\ Resume(i, "done")
    /\ UNCHANGED <<_device_states, _bus, stack, nops, notification>>
    /\ UNCHANGED <<agentVars, appVars>>

\* _reject_pairing, lines 397-404
_reject_pairing(p) ==
    /\ HasDialog(p)
    /\ DecideBody("reject_pairing", p, REJECTED)
    /\ notification' = Notify(<<"Pairing rejected">>, "warning")
    /\ UNCHANGED <<_device_states, _bus, stack, ops, nops, devices>>
    /\ UNCHANGED appVars

\* the device that is pairing has an object in the stack, not yet trusted;
\* the other path names none
PairingStack == <<BluetoothDevice("/d1", FALSE, FALSE, TRUE)>>

\* The agent is registered (main.py line 68), so the bus is connected.
PairInit ==
    /\ CoordIdle
    /\ AppReady
    /\ _bus = TRUE
    /\ stack = PairingStack
    /\ requests = [r \in ReqIds |-> NullRequest]
    /\ pending_requests = [p \in Paths |-> NoReq]
    /\ nreq = 0
    /\ tasks = [r \in ReqIds |-> NullTask]
    /\ notified = [r \in ReqIds |-> 0]
    /\ wait_for_impl \in {"waiter", "cancel"}
    /\ lastCall = Call("__init__", "", "none")

\* pairing requests of the stack, the waits on them, and the dialog's
\* two handlers
PairNext ==
    \/ \E d \in Paths : RequestAuthorization(d)
    \/ \E r \in ReqIds : TimerFires(r)
    \/ \E r \in ReqIds : Wake(r)
    \/ \E r \in ReqIds : WakeCancelled(r)
    \/ Cancel
    \/ \E p \in Paths : _accept_pairing(p)
    \/ \E p \in Paths : _reject_pairing(p)
    \/ \E i \in OpIds : StackCall(i)
    \/ \E i \in OpIds : _accept_pairing_result(i)
    \/ \E i \in OpIds : _accept_pairing_finally(i)

PairSpec == PairInit /\ [][PairNext]_vars

\* ------------------------------------------------ get_connected_device
\* faulty variant: the loop keeps the last connected device it meets
RECURSIVE FirstConnectedFrom_Last(_, _)
FirstConnectedFrom_Last(devs, k) ==
    IF k > Len(devs) THEN <<>>
    ELSE LET rest == FirstConnectedFrom_Last(devs, k + 1) IN
         IF rest # <<>> THEN rest
         ELSE IF devs[k].connected THEN <<devs[k]>> ELSE <<>>

\* for device in devices: if device.connected: return device; return None
\* (<<>> stands for None, <<device>> for a device), from position k on
RECURSIVE FirstConnectedFrom(_, _)
FirstConnectedFrom(devs, k) ==
    IF k > Len(devs) THEN <<>>
    ELSE IF devs[k].connected THEN <<devs[k]>>
    ELSE FirstConnectedFrom(devs, k + 1)

\* BluetoothManager.get_connected_device: listed is what get_devices
\* returned, found what the call returns
get_connected_device ==
    /\ connected_device' = << [listed |-> get_devices,
                               found |-> FirstConnectedFrom(get_devices, 1)] >>
    /\ UNCHANGED <<setup_pc, ui_objects, routes, _adapter_path, _agent,
                   tools, _backend, tool_sinks, bt_sinks, options, raw_error, message>>
    /\ UNCHANGED <<adapterVars, set_volume_call>>
    /\ UNCHANGED coordVars
    /\ UNCHANGED agentVars

\* the query is called while devices connect, drop their link and go away
QueryNext ==
    \/ get_connected_device
    \/ \E p \in Paths : StackPropertyChanged(p)
    \/ \E p \in Paths : StackDeviceRemoved(p)

QuerySpec == CoordInit /\ [][QueryNext]_vars

\* ------------------------------------- every handler that calls the stack
\* connect, disconnect and remove from the device list and trust from the
\* pairing dialog, with the stack's replies; the stack changes nothing by
\* itself and no pairing request times out
RetryNext ==
    \/ HandlerNext
    \/ \E d \in Paths : RequestAuthorization(d)
    \/ \E p \in Paths : _accept_pairing(p)
    \/ \E i \in OpIds : _accept_pairing_result(i)
    \/ \E i \in OpIds : _accept_pairing_finally(i)

RetrySpec == PairInit /\ [][RetryNext]_vars

\* ----------------------------------------- the callbacks that show a code
\* passkeys at the ends of the range 0..999999 and where the digit count changes
PasskeySamples == {0, 7, 9, 10, 99999, 100000, 123456, 999999}

\* the stack calls DisplayPinCode, DisplayPasskey and RequestConfirmation;
\* nobody decides and no timer expires
DisplayNext ==
    \/ \E d \in Paths, c \in PinCodes : DisplayPinCode(d, c)
    \/ \E d \in Paths, k \in PasskeySamples : DisplayPasskey(d, k)
    \/ \E d \in Paths, k \in PasskeySamples : RequestConfirmation(d, k)

DisplaySpec == Init /\ [][DisplayNext]_vars

\* ------------------------------------------------ the classifier alone
\* message holds what the call returned: <<>> before the call, <<text>> after
_parse_dbus_error_call ==
    /\ message = <<>>
    /\ message' = <<_parse_dbus_error(raw_error)>>
    /\ UNCHANGED <<setup_pc, ui_objects, routes, _adapter_path, _agent,
                   tools, _backend, tool_sinks, bt_sinks, options, raw_error>>
    /\ UNCHANGED <<adapterVars, queryVars>>
    /\ UNCHANGED coordVars
    /\ UNCHANGED agentVars

\* an exception with any of the texts has been caught
ClassifyInit ==
    /\ CoordIdle
    /\ _bus = TRUE
    /\ stack = <<>>
    /\ requests = [r \in ReqIds |-> NullRequest]
    /\ pending_requests = [p \in Paths |-> NoReq]
    /\ nreq = 0
    /\ tasks = [r \in ReqIds |-> NullTask]
    /\ notified = [r \in ReqIds |-> 0]
    /\ wait_for_impl = "cancel"
    /\ lastCall = Call("__init__", "", "none")
    /\ setup_pc = "done" /\ ui_objects = 1 /\ routes = TRUE
    /\ _adapter_path = TRUE /\ _agent = TRUE
    /\ tools = {} /\ _backend = UNKNOWN
    /\ tool_sinks = <<>> /\ bt_sinks = <<>> /\ options = <<>>
    /\ raw_error \in ErrorTexts
    /\ message = <<>>
    /\ Discoverable = TRUE /\ Pairable = TRUE /\ agent_registered = TRUE
    /\ connected_device = <<>> /\ set_volume_call = <<>>

ClassifyNext == _parse_dbus_error_call

ClassifySpec == ClassifyInit /\ [][ClassifyNext]_vars

\* ==================================================== the application
\* ------------------------------------------------ AudioManager.__init__
\* faulty variant: amixer is not looked for
_detect_backend_NoAlsa(which) ==
    IF "pw-cli" \in which THEN PIPEWIRE
    ELSE IF "pactl" \in which THEN PULSEAUDIO
    ELSE UNKNOWN

\* which: the set of executables shutil.which finds
_detect_backend(which) ==
    IF "pw-cli" \in which THEN PIPEWIRE
    ELSE IF "pactl" \in which THEN PULSEAUDIO
    ELSE IF "amixer" \in which THEN ALSA
    ELSE UNKNOWN

\* faulty variant: return self.name
display_name_NameOnly(sink) == sink.name

\* AudioSink.display_name: return self.description or self.name
display_name(sink) == IF sink.description # <<>> THEN sink.description ELSE sink.name

\* str.lower() on one piece and on a name
LowerPiece(c) ==
    CASE c \in {"Bluetooth", "BLUETOOTH"} -> "bluetooth"
      [] c \in {"BlueZ", "BLUEZ"} -> "bluez"
      [] OTHER -> c

lower(name) == [i \in 1..Len(name) |-> LowerPiece(name[i])]

\* get_sinks: the backend's tools are asked unless the backend is unknown
get_sinks == IF _backend = UNKNOWN THEN <<>> ELSE tool_sinks

\* faulty variant: "bluetooth" in s.name or "bluez" in s.name
IsBluetoothSink_CaseSensitive(s) ==
    Contains(s.name, "bluetooth") \/ Contains(s.name, "bluez")

\* "bluetooth" in s.name.lower() or "bluez" in s.name.lower()
IsBluetoothSink(s) ==
    Contains(lower(s.name), "bluetooth") \/ Contains(lower(s.name), "bluez")

\* sinks = await self.get_sinks(); return [s for s in sinks if ...]
get_bluetooth_sinks ==
    /\ bt_sinks' = SelectSeq(get_sinks, IsBluetoothSink)
    /\ UNCHANGED <<setup_pc, ui_objects, routes, _adapter_path, _agent,
                   tools, _backend, tool_sinks, options, raw_error, message>>
    /\ UNCHANGED <<adapterVars, queryVars>>
    /\ UNCHANGED coordVars
    /\ UNCHANGED agentVars

\* AudioOutputSelector.refresh (ui.py 253-258), run by the page's timer:
\* options = {s.name: s.display_name for s in self.sinks}
AudioOutputSelector_refresh ==
    /\ routes
    /\ options' = [k \in 1..Len(get_sinks) |->
                      [name |-> get_sinks[k].name, label |-> display_name(get_sinks[k])]]
    /\ UNCHANGED <<setup_pc, ui_objects, routes, _adapter_path, _agent,
                   tools, _backend, tool_sinks, bt_sinks, raw_error, message>>
    /\ UNCHANGED <<adapterVars, queryVars>>
    /\ UNCHANGED coordVars
    /\ UNCHANGED agentVars

\* an audio device appears or goes away
SinksChange ==
    /\ tool_sinks' \in SinkLists \ {tool_sinks}
    /\ UNCHANGED <<setup_pc, ui_objects, routes, _adapter_path, _agent,
                   tools, _backend, bt_sinks, options, raw_error, message>>
    /\ UNCHANGED <<adapterVars, queryVars>>
    /\ UNCHANGED coordVars
    /\ UNCHANGED agentVars

\* ------------------------------------------------- PistonAudio.setup
\* faulty variant: the handler logs and creates nothing
ExceptUi_LogOnly(n) == n

\* main.py line 79 in the except clause: self.ui = PistonAudioUI(...)
ExceptUi(n) == n + 1

\* line 82, self.ui.setup_routes(): an attribute access on None raises
SetupRoutes(n) ==
    IF n = 0
    THEN setup_pc' = "raised" /\ routes' = routes
    ELSE setup_pc' = "done" /\ routes' = TRUE

\* a step inside the try block raises: lines 74-79, then line 82
SetupExcept ==
    /\ ui_objects' = ExceptUi(ui_objects)
    /\ SetupRoutes(ui_objects')

\* line 58, bt_manager.connect(): the bus connection fails; or the bus is
\* connected and the enumeration fails or names no adapter; or an adapter
\* is found and set_adapter_alias starts
setup_connect ==
    /\ setup_pc = "new"
    /\ \/ /\ SetupExcept
          /\ UNCHANGED <<_bus, _adapter_path>>
       \/ /\ _bus' = TRUE
          /\ SetupExcept
          /\ UNCHANGED _adapter_path
       \/ /\ _bus' = TRUE
          /\ _adapter_path' = TRUE
          /\ setup_pc' = "alias"
          /\ UNCHANGED <<ui_objects, routes>>
    /\ UNCHANGED <<_agent, tools, _backend, tool_sinks, bt_sinks, options, raw_error, message>>
    /\ UNCHANGED <<adapterVars, queryVars>>
    /\ UNCHANGED <<_device_states, stack, ops, nops, devices, notification>>
    /\ UNCHANGED agentVars

\* lines 62-64: one of set_adapter_alias, set_discoverable, set_pairable
\* returns and the next call starts, or it raises
SetupStep(pc, next) ==
    /\ setup_pc = pc
    /\ \/ setup_pc' = next /\ UNCHANGED <<ui_objects, routes>>
       \/ SetupExcept
    /\ UNCHANGED <<_adapter_path, _agent, tools, _backend, tool_sinks, bt_sinks, options,
                   raw_error, message>>
    /\ UNCHANGED <<agent_registered, queryVars>>
    /\ UNCHANGED coordVars
    /\ UNCHANGED agentVars

setup_alias ==
    /\ SetupStep("alias", "discoverable")
    /\ UNCHANGED <<Discoverable, Pairable>>

\* set_discoverable(True, timeout=0), bluetooth_agent.py 367-380: the
\* property is set by the first call_set; the call raises before it, or
\* after it when setting the timeout fails
setup_discoverable ==
    /\ SetupStep("discoverable", "pairable")
    /\ \/ Discoverable' = TRUE
       \/ setup_pc' # "pairable" /\ Discoverable' = Discoverable
    /\ UNCHANGED Pairable

\* line 64 returns or raises; on return line 67 creates the UI object and
\* register_agent creates and exports the agent up to its first await
setup_pairable ==
    /\ setup_pc = "pairable"
    /\ \/ /\ ui_objects' = ui_objects + 1
          /\ _agent' = TRUE
          /\ setup_pc' = "register"
          /\ Pairable' = TRUE
          /\ UNCHANGED routes
       \/ /\ SetupExcept
          /\ Pairable' \in {Pairable, TRUE}
          /\ UNCHANGED _agent
    /\ UNCHANGED <<_adapter_path, tools, _backend, tool_sinks, bt_sinks, options,
                   raw_error, message>>
    /\ UNCHANGED <<Discoverable, agent_registered, queryVars>>
    /\ UNCHANGED coordVars
    /\ UNCHANGED agentVars

\* register_agent returns (line 73, then line 82) or raises: before the
\* stack has registered the agent (bluetooth_agent.py 357-361), or after it
\* when the request to make it the default agent fails (line 362)
setup_register ==
    /\ setup_pc = "register"
    /\ \/ /\ SetupRoutes(ui_objects)
          /\ agent_registered' = TRUE
          /\ UNCHANGED ui_objects
       \/ /\ SetupExcept
          /\ agent_registered' \in {agent_registered, TRUE}
    /\ UNCHANGED <<_adapter_path, _agent, tools, _backend, tool_sinks, bt_sinks, options,
                   raw_error, message>>
    /\ UNCHANGED <<Discoverable, Pairable, queryVars>>
    /\ UNCHANGED coordVars
    /\ UNCHANGED agentVars

\* PistonAudio.__init__ (main.py 37-50): the managers are constructed,
\* AudioManager detects its backend, no bus, no UI object yet.
AppInit ==
    /\ CoordIdle
    /\ _bus = FALSE
    /\ stack = <<>>
    /\ requests = [r \in ReqIds |-> NullRequest]
    /\ pending_requests = [p \in Paths |-> NoReq]
    /\ nreq = 0
    /\ tasks = [r \in ReqIds |-> NullTask]
    /\ notified = [r \in ReqIds |-> 0]
    /\ wait_for_impl = "cancel"
    /\ lastCall = Call("__init__", "", "none")
    /\ setup_pc = "new" /\ ui_objects = 0 /\ routes = FALSE
    /\ _adapter_path = FALSE /\ _agent = FALSE
    /\ tools \in SUBSET Tools
    /\ _backend = _detect_backend(tools)
    /\ tool_sinks \in SinkLists
    /\ bt_sinks = <<>> /\ options = <<>>
    /\ raw_error = <<>> /\ message = <<>>
    /\ Discoverable = FALSE /\ Pairable = FALSE /\ agent_registered = FALSE
    /\ connected_device = <<>> /\ set_volume_call = <<>>

\* ------------------------------------------------ AudioManager.set_volume
min(a, b) == IF a <= b THEN a ELSE b

max(a, b) == IF a >= b THEN a ELSE b

\* the upper end of the range, the literal of line 487
VolumeCeiling == 150

\* faulty variant: min(150, volume), no lower end
ClampVolume_NoFloor(volume) == min(VolumeCeiling, volume)

\* volume = max(0, min(150, volume))
ClampVolume(volume) == max(0, min(VolumeCeiling, volume))

\* f"{volume}%": the integer with the percent sign
PercentArg(volume) == [unit |-> "%", whole |-> volume, frac |-> <<>>]

\* str(volume / 100.0): the integer part, the point and one or two
\* fractional digits ("0.07", "0.5", "1.0", "1.25")
DecimalArg(volume) ==
    [unit |-> "",
     whole |-> volume \div 100,
     frac |-> IF volume % 10 # 0
              THEN <<(volume % 100) \div 10, volume % 10>>
              ELSE <<(volume % 100) \div 10>>]

\* lines 489-513: wpctl for PipeWire without pactl, with the id of the sink
\* of that name or the default sink; pactl with the name otherwise.  ok is
\* returncode == 0.
set_volume(sink_name, requested) ==
    /\ LET volume == ClampVolume(requested) IN
       \E ok \in BOOLEAN :
          set_volume_call' =
             << IF _backend = PIPEWIRE /\ "pactl" \notin tools
                THEN [sink_name |-> sink_name, requested |-> requested,
                      tool |-> "wpctl",
                      target |-> IF \E k \in 1..Len(get_sinks) : get_sinks[k].name = sink_name
                                 THEN "id" ELSE "@DEFAULT_AUDIO_SINK@",
                      amount |-> DecimalArg(volume), ok |-> ok]
                ELSE [sink_name |-> sink_name, requested |-> requested,
                      tool |-> "pactl", target |-> "name",
                      amount |-> PercentArg(volume), ok |-> ok] >>
    /\ UNCHANGED <<setup_pc, ui_objects, routes, _adapter_path, _agent,
                   tools, _backend, tool_sinks, bt_sinks, options, raw_error, message>>
    /\ UNCHANGED <<adapterVars, connected_device>>
    /\ UNCHANGED coordVars
    /\ UNCHANGED agentVars

\* the volumes a caller may ask for: the range and a margin on both sides
Volumes == (0 - VolumeMargin)..(VolumeCeiling + VolumeMargin)

\* an audio manager with any tools and sinks; nothing else runs
VolumeInit ==
    /\ CoordIdle
    /\ _bus = TRUE
    /\ stack = <<>>
    /\ requests = [r \in ReqIds |-> NullRequest]
    /\ pending_requests = [p \in Paths |-> NoReq]
    /\ nreq = 0
    /\ tasks = [r \in ReqIds |-> NullTask]
    /\ notified = [r \in ReqIds |-> 0]
    /\ wait_for_impl = "cancel"
    /\ lastCall = Call("__init__", "", "none")
    /\ setup_pc = "done" /\ ui_objects = 1 /\ routes = TRUE
    /\ _adapter_path = TRUE /\ _agent = TRUE
    /\ tools \in SUBSET Tools
    /\ _backend = _detect_backend(tools)
    /\ tool_sinks \in SinkLists
    /\ bt_sinks = <<>> /\ options = <<>>
    /\ raw_error = <<>> /\ message = <<>>
    /\ Discoverable = TRUE /\ Pairable = TRUE /\ agent_registered = TRUE
    /\ connected_device = <<>> /\ set_volume_call = <<>>

\* one call in a run: set_volume reads nothing an earlier call wrote
VolumeNext ==
    /\ set_volume_call = <<>>
    /\ \E s \in Sinks, v \in Volumes : set_volume(s.name, v)

VolumeSpec == VolumeInit /\ [][VolumeNext]_vars

AppNext ==
    \/ setup_connect
    \/ setup_alias
    \/ setup_discoverable
    \/ setup_pairable
    \/ setup_register
    \/ get_bluetooth_sinks
    \/ AudioOutputSelector_refresh
    \/ SinksChange

AppSpec == AppInit /\ [][AppNext]_vars

AppTypeOK ==
    /\ setup_pc \in {"new", "alias", "discoverable", "pairable", "register", "done", "raised"}
    /\ ui_objects \in 0..2
    /\ _backend \in AudioBackend
    /\ tool_sinks \in SinkLists
    /\ Discoverable \in BOOLEAN /\ Pairable \in BOOLEAN /\ agent_registered \in BOOLEAN

\* ======================================================= properties
Created == 1..nreq
Suspended(r) == tasks[r].pc \in {"waiting", "cancelling"}
Decisions == {"accept_pairing", "reject_pairing"}

\* a step that is a call accept_pairing(p) or reject_pairing(p)
DecisionStep(p) ==
    /\ lastCall'.op \in Decisions
    /\ lastCall'.path = p
    /\ UNCHANGED <<tasks, nreq, pending_requests>>

\* a step in which the suspended callback of r returns to the stack
Returns(r) == Suspended(r) /\ tasks'[r].pc = "done"

\* C1: a RequestConfirmation callback whose registered request was accepted
\* while it was suspended (status ACCEPTED, future resolved, timer not
\* expired) returns success, and its path is then not in the registry.
C1_AcceptScenario ==
    [][\A r \in ReqIds :
          ( /\ tasks[r].kind = "RequestConfirmation"
            /\ tasks[r].pc = "waiting" /\ tasks'[r].pc # "waiting"
            /\ notified[r] = 1
            /\ Registered(r)
            /\ requests[r].status = ACCEPTED
            /\ requests[r].future = "result"
            /\ ~tasks[r].timerFired )
          => ( /\ tasks'[r].pc = "done"
               /\ tasks'[r].result = "success"
               /\ requests'[r].status = ACCEPTED
               /\ pending_requests'[requests[r].device_path] = NoReq )]_vars

C1_Witness ==
    \E r \in Created :
        /\ tasks[r].kind = "RequestConfirmation"
        /\ requests[r].device_path = "/d1"
        /\ requests[r].passkey = <<1, 2, 3, 4, 5, 6>>
        /\ notified[r] = 1
        /\ lastCall = Call("accept_pairing", "/d1", "True")
        /\ tasks[r].pc = "done"
        /\ tasks[r].result = "success"
        /\ requests[r].status = ACCEPTED
        /\ pending_requests["/d1"] = NoReq

\* C2: when the callback of a request that is still PENDING (no decision,
\* no Cancel reached it) returns, the request becomes TIMEOUT, the callback
\* signals a rejection and the request's path is not in the registry.
C2_Timeout ==
    [][\A r \in ReqIds :
          (Returns(r) /\ requests[r].status = PENDING)
          => ( /\ tasks[r].timerFired
               /\ requests'[r].status = TIMEOUT
               /\ tasks'[r].result = "rejected"
               /\ pending_requests'[requests[r].device_path] = NoReq )]_vars

C2_Witness ==
    \E r \in Created :
        /\ tasks[r].kind = "RequestAuthorization"
        /\ requests[r].device_path = "/d2"
        /\ lastCall.op = "__init__"
        /\ tasks[r].pc = "done"
        /\ requests[r].status = TIMEOUT
        /\ tasks[r].result = "rejected"
        /\ pending_requests["/d2"] = NoReq

\* C3: first resolution wins: a decision for a path whose registered
\* request is awaited by a suspended callback and is already resolved (its
\* status is terminal or its future is done) changes nothing of any request.
C3_FirstWins ==
    [][\A p \in Paths :
          ( /\ DecisionStep(p)
            /\ pending_requests[p] # NoReq
            /\ Suspended(pending_requests[p])
            /\ \/ requests[pending_requests[p]].status \in Terminal
               \/ requests[pending_requests[p]].future \in {"result", "cancelled"} )
          => requests' = requests]_vars

\* C4: for each device path at most one PENDING request exists, registered
\* or awaited by a suspended callback.
C4_OnePendingPerPath ==
    \A p \in Paths :
        Cardinality({r \in Created :
            /\ requests[r].device_path = p
            /\ requests[r].status = PENDING
            /\ (Registered(r) \/ Suspended(r))}) <= 1

\* C5: a suspending callback that arrives for a path whose registered
\* request is PENDING leaves that request registered.
C5_ReuseWhilePending ==
    [][\A p \in Paths :
          ( /\ pending_requests[p] # NoReq
            /\ requests[pending_requests[p]].status = PENDING
            /\ nreq' = nreq + 1
            /\ requests'[nreq'].device_path = p
            /\ tasks'[nreq'].pc = "waiting" )
          => pending_requests'[p] = pending_requests[p]]_vars

\* C6: a terminal status never changes.
C6_TerminalIsFinal ==
    [][\A r \in ReqIds :
          requests[r].status \in Terminal
          => requests'[r].status = requests[r].status]_vars

\* a step that is a call of Cancel
CancelStep == lastCall'.op = "Cancel" /\ UNCHANGED <<tasks, nreq>>

C8_ReturnIffPending ==
    [][\A p \in Paths :
          DecisionStep(p)
          => /\ lastCall'.ret = "True"
                <=> /\ pending_requests[p] # NoReq
                    /\ requests[pending_requests[p]].status = PENDING
             /\ lastCall'.ret = "False" => requests' = requests]_vars

\* C9: every suspended callback eventually returns to the stack.
C9_GuaranteedResolution ==
    \A r \in ReqIds : Suspended(r) ~> (tasks[r].pc = "done")

\* the callback of a request that was replaced in the registry while it was
\* suspended has returned: its finally block is what removed the newer,
\* still PENDING request r2 of the same path from the registry
C9_Witness ==
    \E r1, r2 \in Created :
        /\ r1 < r2
        /\ requests[r1].device_path = requests[r2].device_path
        /\ tasks[r1].pc = "done"
        /\ requests[r1].status = TIMEOUT
        /\ tasks[r2].pc = "waiting"
        /\ requests[r2].status = PENDING
        /\ ~Registered(r2)

\* C10: no request with a terminal status stays registered: a registered
\* request with a terminal status is one whose suspended callback has been
\* released and removes it when it resumes.
C10_RemovedOnceResolved ==
    \A p \in Paths :
        LET r == pending_requests[p] IN
            (r # NoReq /\ requests[r].status \in Terminal)
            => (Suspended(r) /\ requests[r].future \in {"result", "cancelled"})

C12_AutoApproved == {UuidA2dpSourceLower, UuidA2dpSourceUpper, UuidAvrcpTargetLower}

\* a step in which a callback creates request r
Creates(r) == nreq' = r /\ nreq = r - 1

\* C12: AuthorizeService returns success at once, with no request created,
\* no sink notification and no suspended callback, exactly for the
\* auto-approved identifiers (in any case); for any other identifier it
\* registers a request, notifies the sink once and suspends.
C12_AllowList ==
    [][/\ (lastCall' # lastCall /\ lastCall'.op = "AuthorizeService")
          => /\ lastCall'.arg \in C12_AutoApproved
             /\ lastCall'.ret = "success"
             /\ UNCHANGED <<requests, pending_requests, nreq, tasks, notified>>
       /\ \A r \in ReqIds :
            (Creates(r) /\ tasks'[r].kind = "AuthorizeService")
            => /\ tasks'[r].arg \in Uuids \ C12_AutoApproved
               /\ tasks'[r].pc = "waiting"
               /\ requests'[r].status = PENDING
               /\ pending_requests'[requests'[r].device_path] = r
               /\ notified'[r] = 1
               /\ lastCall' = lastCall]_vars

\* the upper-case A2DP source identifier was authorized at once while the
\* callback for the serial-port identifier is suspended on its request
C12_Witness ==
    /\ lastCall = CallArg("AuthorizeService", "", UuidA2dpSourceUpper, "success")
    /\ \E r \in Created :
          /\ tasks[r].kind = "AuthorizeService"
          /\ tasks[r].arg = UuidSerialPort
          /\ tasks[r].pc = "waiting"
          /\ notified[r] = 1
          /\ Registered(r)
    /\ nreq = 1

SuspendingKinds == {"RequestConfirmation", "RequestAuthorization", "AuthorizeService"}

\* C13: a callback waits for a decision exactly when it is
\* RequestConfirmation, RequestAuthorization or AuthorizeService of an
\* identifier outside the allow-list.  DisplayPinCode and DisplayPasskey
\* register their request and return; RequestPinCode returns "0000" and
\* RequestPasskey returns 0 with no request registered; Release and Cancel
\* return with no callback of their own left waiting.
C13_SuspensionPoints ==
    [][/\ \A r \in ReqIds :
            Creates(r)
            => /\ tasks'[r].kind \in SuspendingKinds \cup {"DisplayPinCode", "DisplayPasskey"}
               /\ tasks'[r].kind \in SuspendingKinds <=> tasks'[r].pc = "waiting"
               /\ tasks'[r].kind \notin SuspendingKinds <=> tasks'[r].pc = "returned"
               /\ tasks'[r].kind = "AuthorizeService"
                     => tasks'[r].arg \notin C12_AutoApproved
       /\ \A r \in ReqIds :
            (~Suspended(r) /\ Suspended(r)') => Creates(r)
       /\ (lastCall' # lastCall
              /\ lastCall'.op \in {"Release", "RequestPinCode", "RequestPasskey", "Cancel"})
          => UNCHANGED <<tasks, nreq>>
       /\ (lastCall' # lastCall /\ lastCall'.op \in {"RequestPinCode", "RequestPasskey"})
          => /\ lastCall'.ret = (IF lastCall'.op = "RequestPinCode" THEN "0000" ELSE "0")
             /\ UNCHANGED <<requests, pending_requests, notified>>]_vars

\* RequestPinCode was answered "0000" while a DisplayPasskey callback has
\* returned and a RequestAuthorization callback is waiting
C13_Witness ==
    /\ lastCall = Call("RequestPinCode", "/d1", "0000")
    /\ \E r1, r2 \in Created :
          /\ tasks[r1].kind = "DisplayPasskey" /\ tasks[r1].pc = "returned"
          /\ tasks[r2].kind = "RequestAuthorization" /\ tasks[r2].pc = "waiting"

\* a step of the wait of r's callback: its timer expires or it resumes
WaitStep(r) == nreq' = nreq /\ tasks'[r] # tasks[r]

\* everything kept for the paths other than p is unchanged by the step
OtherPathsUnchanged(p) ==
    /\ \A q \in Paths \ {p} : pending_requests'[q] = pending_requests[q]
    /\ \A r \in Created :
          requests[r].device_path # p
          => requests'[r] = requests[r] /\ tasks'[r] = tasks[r]

\* C14: accept_pairing(p), reject_pairing(p) and every step of the wait of
\* a callback for p (its timeout included) leave the registry entry, the
\* request and the callback of every other path unchanged; a callback for
\* q registers whatever is pending on other paths and leaves them alone,
\* and a decision on q reaches q's registered request whatever is pending
\* on other paths.
C14_PathsIndependent ==
    [][/\ \A p \in Paths : DecisionStep(p) => OtherPathsUnchanged(p)
       /\ \A r \in Created : WaitStep(r) => OtherPathsUnchanged(requests[r].device_path)
       /\ \A r \in ReqIds : Creates(r) => OtherPathsUnchanged(requests'[r].device_path)
       /\ \A q \in Paths :
            (DecisionStep(q) /\ pending_requests[q] # NoReq)
            => /\ lastCall'.ret = "True"
               /\ requests'[pending_requests[q]].status
                     = (IF lastCall'.op = "accept_pairing" THEN ACCEPTED ELSE REJECTED)
               /\ requests'[pending_requests[q]].future # "pending"
       /\ nreq < MaxReq => \A q \in Paths : ENABLED RequestAuthorization(q)]_vars

\* the callback for /d1 timed out and returned while the request of /d2
\* is still registered, PENDING and waited on
C14_Witness ==
    \E r1, r2 \in Created :
        /\ requests[r1].device_path = "/d1" /\ requests[r2].device_path = "/d2"
        /\ tasks[r1].pc = "done" /\ requests[r1].status = TIMEOUT
        /\ tasks[r2].pc = "waiting" /\ ~tasks[r2].timerFired
        /\ requests[r2].status = PENDING /\ requests[r2].future = "pending"
        /\ Registered(r2)

\* ------------------------------------------------ coordinator claims
\* a step taken by handler i
OpStep(i) == ops'[i] # ops[i]

\* the message each stack error is reported as
Classified(e) ==
    IF e = ErrHostDown THEN <<"Device is not in range or powered off">>
    ELSE IF e = ErrUnknown THEN <<"br-connection-unknown">>
    ELSE <<"Does Not Exist">>

\* C15: a connect on p first sets the overlay of p to CONNECTING, with the
\* stack's Connect not yet issued; the call is issued by a later step; when
\* the call has succeeded the overlay of p becomes CONNECTED and success is
\* reported, when it has failed the overlay becomes ERROR and the
\* classified message is reported; a connect writes no other overlay value
\* (it may only remove the ERROR entry again) and no other path's entry.
C15_ConnectOverlay ==
    [][\A i \in OpIds :
          LET p == ops'[i].path IN
          (OpStep(i) /\ ops'[i].kind = "connect")
          => /\ (ops[i].pc = "unborn" /\ _bus)
                  => /\ _device_states'[p] = CONNECTING
                     /\ ops'[i].pc = "refresh"
                     /\ stack' = stack
             /\ ops'[i].pc = "call"
                  => /\ ops[i].pc = "refresh"
                     /\ _device_states' = _device_states
             /\ (ops[i].pc = "replied" /\ ops[i].ok)
                  => /\ _device_states'[p] = CONNECTED
                     /\ notification' = Notify(<<"Device connected">>, "positive")
             /\ (ops[i].pc = "replied" /\ ~ops[i].ok)
                  => /\ _device_states'[p] = ERROR
                     /\ notification' = Notify(<<"Connection failed: ">>
                                                   \o Classified(ops[i].error), "negative")
             /\ \A q \in Paths :
                   _device_states'[q] # _device_states[q]
                   => /\ q = p
                      /\ _device_states'[q] \in {CONNECTING, CONNECTED, ERROR, NoState}
                      /\ _device_states'[q] = NoState => _device_states[q] = ERROR]_vars

\* the connect on /d1 failed with "Host is down" and was reported, while
\* the connect on /d2 has its call issued and shows CONNECTING
C15_Witness ==
    \E i, j \in OpIds :
        /\ ops[i].kind = "connect" /\ ops[i].path = "/d1"
        /\ ops[i].error = ErrHostDown /\ ops[i].pc = "finally"
        /\ _device_states["/d1"] = ERROR
        /\ notification = Notify(<<"Connection failed: ",
                                   "Device is not in range or powered off">>, "negative")
        /\ ops[j].kind = "connect" /\ ops[j].path = "/d2" /\ ops[j].pc = "call"
        /\ _device_states["/d2"] = CONNECTING

\* C16: a disconnect on p first sets the overlay of p to DISCONNECTING,
\* with the stack's Disconnect issued only by a later step; when the call
\* has succeeded the overlay of p becomes DISCONNECTED, and when it has
\* failed the overlay becomes ERROR and the classified message is reported.
C16_DisconnectOverlay ==
    [][\A i \in OpIds :
          LET p == ops'[i].path IN
          (OpStep(i) /\ ops'[i].kind = "disconnect")
          => /\ (ops[i].pc = "unborn" /\ _bus)
                  => /\ _device_states'[p] = DISCONNECTING
                     /\ ops'[i].pc = "refresh"
                     /\ stack' = stack
             /\ ops'[i].pc = "call" => ops[i].pc = "refresh"
             /\ (ops[i].pc = "replied" /\ ops[i].ok)
                  => _device_states'[p] = DISCONNECTED
             /\ (ops[i].pc = "replied" /\ ~ops[i].ok)
                  => /\ _device_states'[p] = ERROR
                     /\ notification' = Notify(<<"Disconnect failed: ">>
                                                   \o Classified(ops[i].error), "negative")]_vars

\* handler i is past its start and not at its end
Active(i) == ops[i].pc \notin {"unborn", "done"}

\* the failed connect i has left the overlay of p in ERROR and no other
\* handler is at work on p
ErrorLeft(i, p) ==
    /\ ops[i].kind = "connect" /\ ops[i].path = p
    /\ ops[i].pc \in {"finally", "sleep"} /\ ~ops[i].ok
    /\ _device_states[p] = ERROR
    /\ \A j \in OpIds \ {i} : Active(j) => ops[j].path # p

C18_OverlayReconciled ==
    \A k \in 1..Len(devices) :
        /\ devices[k].state = CONNECTED => devices[k].connected
        /\ devices[k].state = DISCONNECTED => ~devices[k].connected

\* C19: when the stack has removed p for a remove handler, or p was
\* already absent when the handler asked, and no other handler is at work
\* on p and p's overlay entry, if any, is the settled outcome of an earlier
\* operation, then after the handler has dealt with the reply p is not
\* among the stack's devices, the overlay has no entry for p, and the
\* entries of the other paths are unchanged.
C19_RemoveIdempotent ==
    [][\A i \in OpIds :
          LET p == ops[i].path IN
          ( /\ OpStep(i) /\ ops[i].kind = "remove" /\ ops[i].pc = "replied"
            /\ ops[i].ok \/ ops[i].error = ErrDoesNotExist
            /\ \A j \in OpIds \ {i} : Active(j) => ops[j].path # p
            /\ _device_states[p] \in {NoState, CONNECTED, DISCONNECTED} )
          => /\ ~InStack(p)
             /\ _device_states'[p] = NoState
             /\ \A q \in Paths \ {p} : _device_states'[q] = _device_states[q]]_vars

\* C20: every list a refresh renders has exactly the stack's devices in
\* the stack's order (none without a bus), each with the path and the
\* paired, trusted and connected flags the stack holds at that moment; the
\* overlay contributes the state alone, which is the path's entry.
C20_ListFromStack ==
    [][devices' # devices
       => LET listed == IF _bus THEN stack ELSE <<>> IN
          /\ Len(devices') = Len(listed)
          /\ \A k \in 1..Len(listed) :
                /\ devices'[k].path = listed[k].path
                /\ devices'[k].paired = listed[k].paired
                /\ devices'[k].trusted = listed[k].trusted
                /\ devices'[k].connected = listed[k].connected
                /\ devices'[k].state = _device_states'[listed[k].path]]_vars

\* a rendered list in the stack's order /d2, /d1 whose states disagree with
\* the flags: /d2 in ERROR yet connected, /d1 DISCONNECTING and connected
C20_Witness ==
    /\ Len(devices) = 2
    /\ devices[1].path = "/d2" /\ devices[1].state = ERROR /\ devices[1].connected
    /\ ~devices[1].paired
    /\ devices[2].path = "/d1" /\ devices[2].state = DISCONNECTING
    /\ devices[2].connected /\ devices[2].trusted

\* ---------------------------------------------------------------- C21
\* C21: trust is issued for a path only by an acceptance that resolved a
\* request still pending on that path: whenever the accept handler issues
\* the stack's trust call for p, a request was registered under p and its
\* status was PENDING when the handler called accept_pairing.
TrustIssued(i, p) ==
    /\ nops' = i /\ nops = i - 1
    /\ ops'[i].kind = "trust" /\ ops'[i].path = p /\ ops'[i].pc = "call"

C21_TrustOnlyAfterAccept ==
    [][\A i \in OpIds, p \in Paths :
          TrustIssued(i, p) =>
              /\ pending_requests[p] # NoReq
              /\ requests[pending_requests[p]].status = PENDING]_vars

\* ---------------------------------------------------------------- C22
\* C22: whichever Bluetooth step of startup fails (bus connection, adapter
\* search, alias, discoverable, pairable, agent registration), setup does
\* not raise, and when setup has ended a UI object exists and its routes
\* are registered.
C22_StartupNeverCrashes ==
    /\ setup_pc # "raised"
    /\ setup_pc = "done" => ui_objects >= 1 /\ routes

\* the bus connection failed, setup ended, and the page's audio selector
\* has listed the sinks
C22_Witness ==
    /\ setup_pc = "done" /\ ~_bus /\ ~_agent
    /\ ui_objects = 1 /\ routes
    /\ options # <<>>

\* ---------------------------------------------------------------- C23
\* the text has one of the patterns the classifier tests before pattern k
EarlierPattern(e, k) == \E j \in 1..(k - 1) : Contains(e, KnownPatterns[j])

\* C23 as stated: a text containing "Host is down" is classified as
\* "Device is not in range or powered off", a text containing
\* "AuthenticationRejected" as "Authentication was rejected by the device",
\* and "foo: bar: baz" as "baz".
C23_Classification ==
    message # <<>> =>
        /\ Contains(raw_error, "Host is down") =>
               message[1] = <<"Device is not in range or powered off">>
        /\ Contains(raw_error, "AuthenticationRejected") =>
               message[1] = <<"Authentication was rejected by the device">>
        /\ raw_error = ErrFooBarBaz => message[1] = <<"baz">>

\* C23 amended: the patterns are tested in a fixed order and the first one
\* found decides, so "AuthenticationRejected" yields its text when none of
\* the seven patterns tested before it occurs in the message.
C23_ClassificationInOrder ==
    message # <<>> =>
        /\ Contains(raw_error, "Host is down") =>
               message[1] = <<"Device is not in range or powered off">>
        /\ Contains(raw_error, "AuthenticationRejected") /\ ~EarlierPattern(raw_error, 8) =>
               message[1] = <<"Authentication was rejected by the device">>
        /\ raw_error = ErrFooBarBaz => message[1] = <<"baz">>

C23_Witness ==
    /\ raw_error = ErrAuthRejected
    /\ message = << <<"Authentication was rejected by the device">> >>

\* ---------------------------------------------------------------- C24
\* the text has none of the known patterns
Unrecognized(e) == ~EarlierPattern(e, Len(KnownPatterns) + 1)

\* m is what follows the last ":" of e, without the blanks around it
TrimmedLastSegment(e, m) ==
    \E a \in 1..(Len(e) + 1), b \in 0..Len(e) :
        /\ m = SubSeq(e, a, b)
        /\ \E c \in 1..(a - 1) :
              /\ e[c] = ":"
              /\ \A k \in (c + 1)..Len(e) : e[k] # ":"
              /\ \A k \in (c + 1)..(a - 1) : e[k] = " "
        /\ \A k \in (b + 1)..Len(e) : e[k] = " "
        /\ m # <<>> => m[1] # " " /\ m[Len(m)] # " "

\* C24 as stated: a message that matches none of the known patterns is
\* returned verbatim.
C24_UnknownVerbatim ==
    message # <<>> /\ Unrecognized(raw_error) => message[1] = raw_error

\* C24 amended: every message yields a result; a message that matches none
\* of the known patterns is returned verbatim when it has no colon, and
\* otherwise reduced to what follows its last colon, trimmed.
C24_CatchAll ==
    /\ message = <<>> => ENABLED _parse_dbus_error_call
    /\ message # <<>> /\ Unrecognized(raw_error) =>
          IF Contains(raw_error, ":")
          THEN TrimmedLastSegment(raw_error, message[1])
          ELSE message[1] = raw_error

C24_Witness ==
    /\ raw_error = ErrDoesNotExist
    /\ message = << <<"Does Not Exist">> >>

BluetoothName(name) ==
    \E i \in 1..Len(name) :
        name[i] \in {"bluetooth", "Bluetooth", "BLUETOOTH", "bluez", "BlueZ", "BLUEZ"}

\* out is the sublist of all positions of in whose sink has such a name
ExactlyTheBluetoothSinks(in, out) ==
    \E f \in [1..Len(out) -> 1..Len(in)] :
        /\ \A i \in 1..Len(out) : out[i] = in[f[i]] /\ BluetoothName(out[i].name)
        /\ \A i, j \in 1..Len(out) : i < j => f[i] < f[j]
        /\ \A k \in 1..Len(in) :
              BluetoothName(in[k].name) => \E i \in 1..Len(out) : f[i] = k

\* C26: a call of get_bluetooth_sinks returns exactly the sinks of get_sinks
\* whose name contains "bluetooth" or "bluez" in any letter case, in the
\* order get_sinks lists them.
C26_BluetoothSinks ==
    [][bt_sinks' # bt_sinks => ExactlyTheBluetoothSinks(get_sinks, bt_sinks')]_vars

\* a sink named with a capital B is kept, the USB sink before it is dropped
C26_Witness ==
    /\ _backend # UNKNOWN
    /\ tool_sinks = <<SinkUsb, SinkDongle>>
    /\ bt_sinks = <<SinkDongle>>

\* ---------------------------------------------------------------- C27
\* C27: the display name of a sink is its description when that is not
\* empty and its name when it is: every option the selector shows for a
\* sink is labelled so.
C27_DisplayName ==
    \A k \in 1..Len(options) : \A s \in Sinks :
        s.name = options[k].name =>
            /\ s.description # <<>> => options[k].label = s.description
            /\ s.description = <<>> => options[k].label = s.name

\* the selector lists a sink with a description and one without
C27_Witness ==
    /\ Len(options) = 2
    /\ options[1] = [name |-> SinkUsb.name, label |-> <<"USB Audio Device">>]
    /\ options[2] = [name |-> SinkBluez.name, label |-> SinkBluez.name]

\* ---------------------------------------------------------------- C28
\* C28: a suspended callback that returns (after a decision, a timeout or
\* Cancel) removes only its own request from the registry: a different
\* request registered under any path stays registered.
C28_RemovesOnlyOwn ==
    [][\A r \in ReqIds :
          Returns(r) =>
              \A p \in Paths :
                  pending_requests[p] \notin {NoReq, r}
                  => pending_requests'[p] = pending_requests[p]]_vars

\* ---------------------------------------------------------------- C29
\* C29: when accept_pairing(p) returns True, every callback suspended on
\* path p at that moment is released with an accepted request (and so
\* returns success unless a rejection or Cancel follows): none of them is
\* left to end with a rejection or a timeout.
C29_AcceptReleasesAll ==
    [][\A p \in Paths :
          ( /\ DecisionStep(p)
            /\ lastCall'.op = "accept_pairing"
            /\ lastCall'.ret = "True" )
          => \A r \in Created :
                (Suspended(r) /\ requests[r].device_path = p)
                => /\ requests'[r].status = ACCEPTED
                   /\ requests'[r].future = "result"]_vars

C31_NoTransientAtRest ==
    \A p \in Paths :
        (\A i \in 1..nops :
            (ops[i].path = p /\ ops[i].kind \in {"connect", "disconnect"})
            => ops[i].pc = "done")
        => _device_states[p] \notin {CONNECTING, DISCONNECTING}

\* ---------------------------------------------------------------- C32
\* C32: the overlay state of a path becomes CONNECTED, and "Device
\* connected" is reported, only in the step in which a connect handler for
\* that path receives the successful reply of the stack call it issued,
\* and never while the manager has no bus.
C32_ConnectedOnlyAfterCall ==
    [][\A p \in Paths :
          (_device_states'[p] = CONNECTED /\ _device_states[p] # CONNECTED)
          => /\ _bus
             /\ \E i \in OpIds :
                   /\ ops[i].kind = "connect" /\ ops[i].path = p
                   /\ ops[i].pc = "replied" /\ ops[i].ok
                   /\ ops'[i].pc = "finally"]_vars

\* ---------------------------------------------------------------- C33
\* C33: the step in which the delayed clear of a failed connect on p wakes
\* changes the overlay only by removing the entry of p, and only when that
\* entry is ERROR at that moment: an entry a newer operation has set to
\* CONNECTING, CONNECTED, DISCONNECTING or DISCONNECTED is left as it is,
\* and so is the entry of every other path.
C33_ClearOnlyOwnError ==
    [][\A i \in OpIds :
          LET p == ops[i].path IN
          (ops[i].pc = "sleep" /\ ops'[i].pc # "sleep")
          => /\ \A q \in Paths \ {p} : _device_states'[q] = _device_states[q]
             /\ _device_states'[p] # _device_states[p]
                  => /\ _device_states[p] = ERROR
                     /\ _device_states'[p] = NoState
             /\ _device_states[p] \in {CONNECTING, CONNECTED, DISCONNECTING, DISCONNECTED}
                  => _device_states'[p] = _device_states[p]]_vars

\* the delayed clear of a failed connect on /d1 has woken and finished
\* after a newer connect on /d1 had set CONNECTING: the list still shows the
\* ERROR rendered when the clear was scheduled, the overlay is CONNECTING
C33_Witness ==
    \E i, j \in OpIds :
        /\ ops[i].kind = "connect" /\ ops[i].path = "/d1"
        /\ ops[i].pc = "done" /\ ops[i].error # <<>>
        /\ ops[j].kind = "connect" /\ ops[j].path = "/d1" /\ ops[j].pc = "refresh"
        /\ _device_states["/d1"] = CONNECTING
        /\ \E k \in 1..Len(devices) :
              devices[k].path = "/d1" /\ devices[k].state = ERROR

\* ---------------------------------------------------------------- C34
\* C34: whenever setup has completed with the adapter set discoverable and
\* pairable, the pairing agent has been registered with the stack, also
\* when setup ended in the audio-only fallback.
C34_OpenOnlyWithAgent ==
    (setup_pc = "done" /\ Discoverable /\ Pairable) => agent_registered

\* ---------------------------------------------------------------- C35
\* the number a sequence of decimal digits writes
RECURSIVE DecimalValue(_)
DecimalValue(s) ==
    IF s = <<>> THEN 0 ELSE 10 * DecimalValue(SubSeq(s, 1, Len(s) - 1)) + s[Len(s)]

\* s is exactly six decimal digits that write k
SixDigitsOf(s, k) ==
    /\ Len(s) = 6
    /\ \A n \in 1..6 : s[n] \in 0..9
    /\ DecimalValue(s) = k

\* the step has registered under d a new PENDING request carrying code,
\* notified the sink once for it and returned without waiting
Shown(d, code) ==
    LET r == nreq' IN
    /\ nreq' = nreq + 1
    /\ requests'[r].device_path = d
    /\ requests'[r].passkey = code
    /\ requests'[r].status = PENDING
    /\ requests'[r].future = "none"
    /\ pending_requests'[d] = r
    /\ notified'[r] = 1
    /\ tasks'[r].pc = "returned"

\* C35: a DisplayPinCode call registers a PENDING request carrying the pin
\* code, a DisplayPasskey call one carrying the passkey, each notifies the
\* sink exactly once and returns without waiting; the passkey a
\* DisplayPasskey or RequestConfirmation call registers is exactly six
\* decimal digits, zero-padded, that write the number the stack sent, for
\* numbers from 0 to 999999.
C35_DisplayedCodes ==
    [][\A d \in Paths :
          /\ \A c \in PinCodes : DisplayPinCode(d, c) => Shown(d, c)
          /\ \A k \in PasskeySamples :
                /\ DisplayPasskey(d, k)
                     => /\ Shown(d, requests'[nreq'].passkey)
                        /\ SixDigitsOf(requests'[nreq'].passkey, k)
                /\ RequestConfirmation(d, k)
                     => /\ SixDigitsOf(requests'[nreq'].passkey, k)
                        /\ notified'[nreq'] = 1]_vars

\* DisplayPasskey was called with 0 for /d1 and has returned, its request
\* shows 000000; RequestConfirmation for /d2 with 999999 is waiting
C35_Witness ==
    \E r1, r2 \in Created :
        /\ tasks[r1].kind = "DisplayPasskey" /\ tasks[r1].pc = "returned"
        /\ requests[r1].device_path = "/d1"
        /\ requests[r1].passkey = <<0, 0, 0, 0, 0, 0>>
        /\ requests[r1].status = PENDING /\ notified[r1] = 1
        /\ tasks[r2].kind = "RequestConfirmation" /\ tasks[r2].pc = "waiting"
        /\ requests[r2].device_path = "/d2"
        /\ requests[r2].passkey = <<9, 9, 9, 9, 9, 9>>

\* ---------------------------------------------------------------- C36
\* the handler has the reply of its stack call, or is past it
Replied == {"replied", "finally", "sleep", "cleared", "done"}

\* C36: a connect, disconnect, trust or remove handler issues its stack
\* call at most once: it comes to the call only from its start, and once
\* the stack has replied it stays past the call; when the reply is a
\* failure the handler's next step reports it with a negative notification
\* and starts no new handler; the stack changes only in reply to a call.
C36_NoRetries ==
    [][/\ \A i \in OpIds :
            /\ (ops'[i].pc = "call" /\ ops[i].pc # "call")
                 => ops[i].pc \in {"unborn", "refresh"}
            /\ ops[i].pc \in Replied
                 => /\ ops'[i].pc \in Replied
                    /\ ops'[i].kind = ops[i].kind /\ ops'[i].path = ops[i].path
            /\ (ops[i].pc = "replied" /\ ops'[i].pc # "replied" /\ ~ops[i].ok)
                 => /\ notification'.type = "negative"
                    /\ nops' = nops
       /\ stack' # stack
            => \E i \in OpIds : ops[i].pc = "call" /\ ops'[i].pc = "replied"]_vars

\* the trust call of an accepted pairing failed and the handler has ended;
\* a remove of /d2, which the stack does not know, failed and was reported;
\* the stack is as it was
C36_Witness ==
    \E i, j \in OpIds :
        /\ ops[i].kind = "trust" /\ ops[i].pc = "done" /\ ops[i].error = ErrHostDown
        /\ ops[j].kind = "remove" /\ ops[j].path = "/d2" /\ ops[j].pc = "finally"
        /\ ops[j].error = ErrDoesNotExist
        /\ notification.type = "negative"
        /\ notification.text[1] = "Remove failed: "
        /\ stack = PairingStack

\* ---------------------------------------------------------------- C37
\* C37: get_connected_device returns the first device, in the order the
\* stack enumerated them, whose connected flag is true, and returns none
\* exactly when no enumerated device is connected; the enumeration is the
\* stack's device list at the call, or empty without a bus.
C37_FirstConnected ==
    [][connected_device' # connected_device =>
          LET listed == connected_device'[1].listed
              found == connected_device'[1].found
          IN /\ listed = IF _bus THEN stack ELSE <<>>
             /\ found = <<>> <=> \A k \in 1..Len(listed) : ~listed[k].connected
             /\ found # <<>> =>
                   \E k \in 1..Len(listed) :
                       /\ found = <<listed[k]>>
                       /\ listed[k].connected
                       /\ \A n \in 1..(k - 1) : ~listed[n].connected]_vars

\* the stack listed /d2 before /d1, both connected, and the call returned /d2
C37_Witness ==
    /\ connected_device # <<>>
    /\ Len(connected_device[1].listed) = 2
    /\ connected_device[1].listed[1].path = "/d2"
    /\ connected_device[1].listed[1].connected
    /\ connected_device[1].listed[2].connected
    /\ connected_device[1].found # <<>>
    /\ connected_device[1].found[1].path = "/d2"

\* ---------------------------------------------------------------- C38
\* the volume in percent that an argument handed to the tool denotes
PercentSent(a) ==
    IF a.unit = "%" THEN a.whole
    ELSE 100 * a.whole + 10 * a.frac[1] + (IF Len(a.frac) = 2 THEN a.frac[2] ELSE 0)

====
